---- MODULE Spec2Model ----
(***************************************************************************)
(* A model of the segment / validate / retry / reassemble core of the      *)
(* markdown translator.                                                    *)
(*                                                                         *)
(* Texts are sequences of one-character strings, so that split('\n'),      *)
(* join('\n'), endsWith, slice and the heading regular expression are      *)
(* computed character by character as the TypeScript code computes them.   *)
(***************************************************************************)
EXTENDS Integers, Sequences, FiniteSets, TLC

VARIABLES
    \* chunk pipeline (semantic-chunker.ts)
    content,            \* the document handed to chunkMarkdown
    chunks,             \* the ChunkInfo[] chunkMarkdown returned
    classChunks,        \* the ChunkInfo[] SemanticChunker.chunkMarkdown returned
    joined,             \* the string joinChunks returned
    cpc,                \* position in processChunkPipeline
    \* line count validation (utils/line-validation.ts)
    originalText,       \* first argument of validateLineCount
    translatedText,     \* second argument of validateLineCount
    validation,         \* the { isValid, adjustedText } it returned
    vpc,                \* "start" before the call, "validated" after it
    \* retry loop (utils/retry.ts)
    maxAttempts,        \* options.maxAttempts
    hasOnError,         \* options.onError is supplied
    hasOnMaxAttemptsReached, \* options.onMaxAttemptsReached is supplied
    attemptNumber,      \* the loop counter
    lastResult,         \* let lastResult: T | null
    lastFailureReason,  \* let lastFailureReason: string | undefined
    attemptCalls,       \* one record per call of attempt, in order
    validateCalls,      \* one record per call of validate, in order
    onErrorCalls,       \* one record per call of onError, in order
    exhaustedCalls,     \* the arguments onMaxAttemptsReached was called with
    outcome,            \* how retryUntilSuccess ended
    rpc,                \* "loop" while the for loop runs, then "after", then "done"
    \* joinChunks on its own (semantic-chunker.ts)
    segments,           \* the string[] handed to joinChunks
    joinedSegments,     \* the string it returned
    jpc,                \* "start" before the call, "joined" after it
    \* the translation workflow (TranslationWorkflow.translateMarkdownContent)
    originalContent,    \* the document handed to the workflow
    maxRetries,         \* const maxRetries = options.maxRetries || 3
    workflowChunks,     \* const chunks = await chunkMarkdown(originalContent)
    chunkNumber,        \* index + 1 of the chunk the for loop is at
    stageAttemptNumber, \* attemptNumber of the retryUntilSuccess call in progress
    stageLastResult,    \* its lastResult: <<>> for null, <<r>> for a result r
    stageLastFailureReason, \* its lastFailureReason
    translatedChunk,    \* const translatedChunk = validationResult.adjustedText
    processedChunks,    \* const processedChunks: string[]
    hasProofreadErrors, \* let hasProofreadErrors
    finalContent,       \* const finalContent = joinChunks(processedChunks)
    finalValidation,    \* const finalValidation = validateLineCount(...)
    workflowOutcome,    \* what translateMarkdownContent returned or threw
    lastStageCall,      \* the latest call of translator.run or proofreader.run
    lastValidateCall,   \* the latest call of validateLineCount
    unvalidatedStages,  \* history: <<chunk number, stage>> of the stages that ended without a validated result
    allIdentity,        \* history: every stage call so far returned its input, no lint message
    wpc,                \* position in translateMarkdownContent
    \* the file workflow with cross-chunk context (TranslationWorkflow.translateMarkdownFile)
    fileOriginalContent, \* const originalContent = await this.readFile(inputPath)
    fileChunks,         \* const chunks = await chunkMarkdown(originalContent)
    fileChunkNumber,    \* index + 1 of the chunk the for loop is at
    fileTranslatedChunk, \* const translatedChunk = await this.translator.run(...)
    fileProcessedChunks, \* const processedChunks: string[]
    previousTranslations, \* const previousTranslations: string[]
    translatorInput,    \* the input of the latest call of translator.run
    contextInfo,        \* what buildTranslationContext made of it
    fileOutput,         \* what translateMarkdownFile returned: <<>> before, <<text>> after
    fpc,                \* position in translateMarkdownFile
    \* one call of Proofreader.run
    proofreadInput,     \* its input { text, retryReason, previousFailedAttempt }
    lintCalls,          \* the texts handed to textlintRunner.lintText, in order
    modelCalls,         \* the inputs handed to chain.invoke, in order
    diagnostics,        \* const diagnostics = await this.textlintRunner.lintText(text)
    fixedText,          \* const fixedText = await this.correctTextErrors(...)
    modelFailed,        \* history: chain.invoke threw
    proofreadOutcome,   \* what Proofreader.run returned or threw
    ppc,                \* position in Proofreader.run
    \* one call of Translator.translate (translator.ts)
    translateContent,   \* the document handed to translate
    translateMaxRetries, \* its maxRetries
    translateChunks,    \* const chunks = await this.chunker.chunkMarkdown(content)
    chunkAttempt,       \* per chunk: the attempt its translateChunk loop is at
    chunkSettled,       \* per chunk: <<>> while the callback runs, <<text>> once it has returned
    completionOrder,    \* history: the chunk numbers in the order their callbacks returned
    translateResult,    \* what translate returned
    tpc,                \* position in translate
    \* the command line (main)
    mainPc,             \* position in main and executeWithWorkflow
    outputWrites,       \* the calls of writeTextFile(outputPath, ...), in order
    exitStatus          \* <<>> while the process runs, <<code>> once it has ended

chunkVars == <<content, chunks, classChunks, joined, cpc>>
validateVars == <<originalText, translatedText, validation, vpc>>
retryVars == <<maxAttempts, hasOnError, hasOnMaxAttemptsReached, attemptNumber,
               lastResult, lastFailureReason, attemptCalls, validateCalls,
               onErrorCalls, exhaustedCalls, outcome, rpc>>
joinVars == <<segments, joinedSegments, jpc>>
workflowVars == <<originalContent, maxRetries, workflowChunks, chunkNumber,
                  stageAttemptNumber, stageLastResult, stageLastFailureReason,
                  translatedChunk, processedChunks, hasProofreadErrors,
                  finalContent, finalValidation, workflowOutcome, lastStageCall,
                  lastValidateCall, unvalidatedStages, allIdentity, wpc>>
contextVars == <<fileOriginalContent, fileChunks, fileChunkNumber, fileTranslatedChunk,
                 fileProcessedChunks, previousTranslations, translatorInput,
                 contextInfo, fileOutput, fpc>>
proofreaderVars == <<proofreadInput, lintCalls, modelCalls, diagnostics, fixedText,
                     modelFailed, proofreadOutcome, ppc>>
translateVars == <<translateContent, translateMaxRetries, translateChunks,
                   chunkAttempt, chunkSettled, completionOrder, translateResult, tpc>>
mainVars == <<mainPc, outputWrites, exitStatus>>
vars == <<chunkVars, validateVars, retryVars, joinVars, workflowVars, contextVars,
          proofreaderVars, translateVars, mainVars>>

(***************************************************************************)
(* Bounds of the model.                                                    *)
(***************************************************************************)
MaxLines == 3           \* a document has at most this many lines
MaxTextLen == 4         \* texts handed to validateLineCount have at most this many characters
MaxAttemptsBound == 3   \* options.maxAttempts ranges over 0..MaxAttemptsBound
MaxSegments == 3        \* joinChunks is handed at most this many segments
MaxSegmentLen == 2      \* each of at most this many characters
MaxWorkflowLines == 2   \* a document handed to the workflow has at most this many lines
MaxRetriesOption == 1   \* options.maxRetries is undefined or in 0..MaxRetriesOption
MaxContextLines == 4    \* a document handed to translateMarkdownFile has at most this many lines
MaxLintMessages == 1    \* lintText reports at most this many messages
MaxTranslateLines == 2  \* a document handed to Translator.translate has at most this many lines
MaxTranslateRetries == 2 \* its maxRetries ranges over 0..MaxTranslateRetries

\* Numbers of the program.
RecentCount == 2        \* previousTranslations.slice(-2)
PreviewLimit == 200     \* translation.length > 200
PreviewHalf == 100      \* substring(0, 100) and substring(translation.length - 100)

(***************************************************************************)
(* Characters and strings.                                                 *)
(***************************************************************************)
NL == "\n"

\* the backtick character (a string literal of the language cannot hold it)
Backtick == "BACKTICK"

AsciiLetters ==
    {"a", "b", "c", "d", "e", "f", "g", "h", "i", "j", "k", "l", "m",
     "n", "o", "p", "q", "r", "s", "t", "u", "v", "w", "x", "y", "z",
     "A", "B", "C", "D", "E", "F", "G", "H", "I", "J", "K", "L", "M",
     "N", "O", "P", "Q", "R", "S", "T", "U", "V", "W", "X", "Y", "Z"}

\* the regular expression class \s, on the characters of the model
IsWhitespace(c) == c \in {" ", "\t", "\r", NL}

\* the characters the regular expression . does not match
IsLineTerminator(c) == c \in {NL, "\r"}

\* String.prototype.split('\n')
RECURSIVE splitFrom(_, _, _, _)
splitFrom(text, i, done, current) ==
    IF i > Len(text) THEN Append(done, current)
    ELSE IF text[i] = NL THEN splitFrom(text, i + 1, Append(done, current), <<>>)
    ELSE splitFrom(text, i + 1, done, Append(current, text[i]))

split(text) == splitFrom(text, 1, <<>>, <<>>)

\* Array.prototype.join('\n')
RECURSIVE arrayJoin(_)
arrayJoin(parts) ==
    IF Len(parts) = 0 THEN <<>>
    ELSE IF Len(parts) = 1 THEN parts[1]
    ELSE parts[1] \o <<NL>> \o arrayJoin(Tail(parts))

\* text.split('\n').length
getLineCount(text) == Len(split(text))

\* String.prototype.endsWith('\n')
endsWithNewline(text) == Len(text) > 0 /\ text[Len(text)] = NL

\* String.prototype.slice(0, -1)
sliceOffLast(text) == IF Len(text) = 0 THEN <<>> ELSE SubSeq(text, 1, Len(text) - 1)

\* String.prototype.includes('```')
includesFence(text) ==
    \E i \in 1..Len(text) :
        i + 2 <= Len(text) /\ text[i] = Backtick /\ text[i + 1] = Backtick /\ text[i + 2] = Backtick

\* String.prototype.startsWith('```')
startsWithFence(text) ==
    Len(text) >= 3 /\ text[1] = Backtick /\ text[2] = Backtick /\ text[3] = Backtick

\* String.prototype.trim()
RECURSIVE trimStart(_)
trimStart(text) ==
    IF Len(text) > 0 /\ IsWhitespace(text[1]) THEN trimStart(Tail(text)) ELSE text

RECURSIVE trimEnd(_)
trimEnd(text) ==
    IF Len(text) > 0 /\ IsWhitespace(text[Len(text)])
    THEN trimEnd(SubSeq(text, 1, Len(text) - 1)) ELSE text

trim(text) == trimEnd(trimStart(text))

(***************************************************************************)
(* semantic-chunker.ts                                                     *)
(***************************************************************************)

\* the heading pattern with #{1,4} for #{1,3}
headingMatch_upToFour(line) ==
    \E k \in 1..4 : \E j \in 1..Len(line) :
        /\ k + j + 1 <= Len(line)
        /\ \A i \in 1..k : line[i] = "#"
        /\ \A i \in (k + 1)..(k + j) : IsWhitespace(line[i])
        /\ ~IsLineTerminator(line[k + j + 1])

\* line.match(/^(#{1,3})\s+(.+)/): one to three '#', then at least one
\* whitespace character, then at least one character that is no line
\* terminator; the match is anchored at the start of the line only.
headingMatch(line) ==
    \E k \in 1..3 : \E j \in 1..Len(line) :
        /\ k + j + 1 <= Len(line)
        /\ \A i \in 1..k : line[i] = "#"
        /\ \A i \in (k + 1)..(k + j) : IsWhitespace(line[i])
        /\ ~IsLineTerminator(line[k + j + 1])

\* shouldTranslateChunk: a line outside ``` spans that is not blank and
\* holds an ASCII letter
RECURSIVE translatableFrom(_, _, _)
translatableFrom(lines, i, inCodeBlock) ==
    IF i > Len(lines) THEN FALSE
    ELSE LET line == lines[i]
             trimmed == trim(line)
         IN  IF startsWithFence(trimmed)
             THEN translatableFrom(lines, i + 1, ~inCodeBlock)
             ELSE IF /\ ~inCodeBlock
                     /\ trimmed # <<>>
                     /\ \E p \in 1..Len(line) : line[p] \in AsciiLetters
             THEN TRUE
             ELSE translatableFrom(lines, i + 1, inCodeBlock)

\* shouldTranslateChunk looking at every line, fenced or not
shouldTranslateChunk_ignoresFences(text) ==
    \E p \in 1..Len(text) : text[p] \in AsciiLetters

shouldTranslateChunk(text) == translatableFrom(split(text), 1, FALSE)

\* createChunkInfo keeping the first line of the chunk only
createChunkInfo_firstLineOnly(lines, startLine, endLine) ==
    LET text == lines[1]
    IN  [content |-> text,
         startLine |-> startLine,
         endLine |-> endLine,
         hasCodeBlocks |-> includesFence(text),
         needsTranslation |-> shouldTranslateChunk(text)]

\* createChunkInfo leaving out a blank last line of the chunk
createChunkInfo_dropsBlankTail(lines, startLine, endLine) ==
    LET kept == IF Len(lines) > 1 /\ lines[Len(lines)] = <<>>
                THEN SubSeq(lines, 1, Len(lines) - 1) ELSE lines
        text == arrayJoin(kept)
    IN  [content |-> text,
         startLine |-> startLine,
         endLine |-> endLine,
         hasCodeBlocks |-> includesFence(text),
         needsTranslation |-> shouldTranslateChunk(text)]

createChunkInfo(lines, startLine, endLine) ==
    LET text == arrayJoin(lines)
    IN  [content |-> text,
         startLine |-> startLine,
         endLine |-> endLine,
         hasCodeBlocks |-> includesFence(text),
         needsTranslation |-> shouldTranslateChunk(text)]

\* const endLine = currentStartLine + currentChunkLines.length - 1
chunkEndLine_offByOne(currentStartLine, currentChunkLines) ==
    currentStartLine + Len(currentChunkLines)

chunkEndLine(currentStartLine, currentChunkLines) ==
    currentStartLine + Len(currentChunkLines) - 1

\* the for loop of chunkMarkdown and the push of the last chunk after it;
\* i is the 1-based line number (lineNumber = i + 1 for the code's 0-based i)
RECURSIVE chunkLoop(_, _, _, _, _)
chunkLoop(lines, i, done, currentChunkLines, currentStartLine) ==
    IF i > Len(lines)
    THEN IF Len(currentChunkLines) > 0
         THEN Append(done, createChunkInfo(currentChunkLines, currentStartLine,
                        chunkEndLine(currentStartLine, currentChunkLines)))
         ELSE done
    ELSE IF headingMatch(lines[i]) /\ Len(currentChunkLines) > 0
    THEN chunkLoop(lines, i + 1,
                   Append(done, createChunkInfo(currentChunkLines, currentStartLine,
                            chunkEndLine(currentStartLine, currentChunkLines))),
                   <<lines[i]>>, i)
    ELSE chunkLoop(lines, i + 1, done, Append(currentChunkLines, lines[i]),
                   currentStartLine)

chunkMarkdown(text) == chunkLoop(split(text), 1, <<>>, <<>>, 1)

\* SemanticChunker.chunkMarkdown: the same loop, with endLine taken from the
\* line number (lineNumber - 1, and lines.length for the last chunk)
RECURSIVE classChunkLoop(_, _, _, _, _)
classChunkLoop(lines, i, done, currentChunk, currentStartLine) ==
    IF i > Len(lines)
    THEN IF Len(currentChunk) > 0
         THEN Append(done, createChunkInfo(currentChunk, currentStartLine, Len(lines)))
         ELSE done
    ELSE IF headingMatch(lines[i]) /\ Len(currentChunk) > 0
    THEN classChunkLoop(lines, i + 1,
                        Append(done, createChunkInfo(currentChunk, currentStartLine, i - 1)),
                        <<lines[i]>>, i)
    ELSE classChunkLoop(lines, i + 1, done, Append(currentChunk, lines[i]),
                        currentStartLine)

SemanticChunker_chunkMarkdown(text) == classChunkLoop(split(text), 1, <<>>, <<>>, 1)

\* chunks.map(chunk => chunk.content)
chunkContentsOf(cs) == [i \in 1..Len(cs) |-> cs[i].content]

joinChunks_trailingSeparator(chunkContents) ==
    IF Len(chunkContents) = 0 THEN <<>>
    ELSE IF Len(chunkContents) = 1 THEN chunkContents[1]
    ELSE arrayJoin(chunkContents) \o <<NL>>

\* joinChunks with the parts put end to end, no separator between them
RECURSIVE concatAll(_)
concatAll(parts) ==
    IF Len(parts) = 0 THEN <<>> ELSE Head(parts) \o concatAll(Tail(parts))

joinChunks_noSeparator(chunkContents) == concatAll(chunkContents)

\* joinChunks without its branch for a single chunk, which gets a newline
joinChunks_singleTerminated(chunkContents) ==
    IF Len(chunkContents) = 0 THEN <<>>
    ELSE IF Len(chunkContents) = 1 THEN chunkContents[1] \o <<NL>>
    ELSE arrayJoin(chunkContents)

joinChunks(chunkContents) ==
    IF Len(chunkContents) = 0 THEN <<>>
    ELSE IF Len(chunkContents) = 1 THEN chunkContents[1]
    ELSE arrayJoin(chunkContents)

(***************************************************************************)
(* utils/line-validation.ts (line-count-validator.ts holds the same code)   *)
(***************************************************************************)

\* a validator that cuts the last character of a candidate with one line too
\* many without looking at it
validateLineCount_stripsUnchecked(original, translated) ==
    LET originalLines == split(original)
        translatedLines == split(translated)
    IN  IF Len(originalLines) = Len(translatedLines)
        THEN [isValid |-> TRUE, adjustedText |-> translated]
        ELSE IF Len(translatedLines) = Len(originalLines) + 1
        THEN [isValid |-> TRUE, adjustedText |-> sliceOffLast(translated)]
        ELSE IF Len(originalLines) = Len(translatedLines) + 1
        THEN [isValid |-> TRUE, adjustedText |-> translated \o <<NL>>]
        ELSE [isValid |-> FALSE, adjustedText |-> translated]

\* a validator that tolerates any difference of one line without adjusting
validateLineCount_toleratesOneLine(original, translated) ==
    LET originalLines == split(original)
        translatedLines == split(translated)
    IN  IF \/ Len(originalLines) = Len(translatedLines)
           \/ Len(translatedLines) = Len(originalLines) + 1
           \/ Len(originalLines) = Len(translatedLines) + 1
        THEN [isValid |-> TRUE, adjustedText |-> translated]
        ELSE [isValid |-> FALSE, adjustedText |-> translated]

\* validateLineCount putting the missing newline in front of the text
validateLineCount_prependsNewline(original, translated) ==
    LET originalLines == split(original)
        translatedLines == split(translated)
        translatedWithoutNewline == sliceOffLast(translated)
        translatedWithNewline == <<NL>> \o translated
    IN  IF Len(originalLines) = Len(translatedLines)
        THEN [isValid |-> TRUE, adjustedText |-> translated]
        ELSE IF /\ Len(translatedLines) = Len(originalLines) + 1
                /\ endsWithNewline(translated)
                /\ Len(originalLines) = Len(split(translatedWithoutNewline))
        THEN [isValid |-> TRUE, adjustedText |-> translatedWithoutNewline]
        ELSE IF /\ Len(originalLines) = Len(translatedLines) + 1
                /\ Len(originalLines) = Len(split(translatedWithNewline))
        THEN [isValid |-> TRUE, adjustedText |-> translatedWithNewline]
        ELSE [isValid |-> FALSE, adjustedText |-> translated]

\* validateLineCount appending two newlines to a candidate one line short
validateLineCount_appendsTwice(original, translated) ==
    LET originalLines == split(original)
        translatedLines == split(translated)
        translatedWithoutNewline == sliceOffLast(translated)
    IN  IF Len(originalLines) = Len(translatedLines)
        THEN [isValid |-> TRUE, adjustedText |-> translated]
        ELSE IF /\ Len(translatedLines) = Len(originalLines) + 1
                /\ endsWithNewline(translated)
                /\ Len(originalLines) = Len(split(translatedWithoutNewline))
        THEN [isValid |-> TRUE, adjustedText |-> translatedWithoutNewline]
        ELSE IF Len(originalLines) = Len(translatedLines) + 1
        THEN [isValid |-> TRUE, adjustedText |-> translated \o <<NL, NL>>]
        ELSE [isValid |-> FALSE, adjustedText |-> translated]

validateLineCount(original, translated) ==
    LET originalLines == split(original)
        translatedLines == split(translated)
        translatedWithoutNewline == sliceOffLast(translated)
        translatedWithNewline == translated \o <<NL>>
    IN  IF Len(originalLines) = Len(translatedLines)
        THEN [isValid |-> TRUE, adjustedText |-> translated]
        ELSE IF /\ Len(translatedLines) = Len(originalLines) + 1
                /\ endsWithNewline(translated)
                /\ Len(originalLines) = Len(split(translatedWithoutNewline))
        THEN [isValid |-> TRUE, adjustedText |-> translatedWithoutNewline]
        ELSE IF /\ Len(originalLines) = Len(translatedLines) + 1
                /\ Len(originalLines) = Len(split(translatedWithNewline))
        THEN [isValid |-> TRUE, adjustedText |-> translatedWithNewline]
        ELSE [isValid |-> FALSE, adjustedText |-> translated]

(***************************************************************************)
(* Inputs.                                                                 *)
(***************************************************************************)

\* the lines documents are built from: blank, text, digits only, headings of
\* level 1, 3 and 4, a '#' with nothing after its space, and a code fence
LineSet ==
    { <<>>,
      <<"a">>,
      <<"1">>,
      <<"#", " ", "a">>,
      <<"#", "#", "#", " ", "a">>,
      <<"#", "#", "#", "#", " ", "a">>,
      <<"#", " ">>,
      <<Backtick, Backtick, Backtick>> }

\* every document of 1..MaxLines lines of LineSet (the empty document is the
\* one blank line)
Docs == { arrayJoin(ls) : ls \in UNION { [1..n -> LineSet] : n \in 1..MaxLines } }

\* every text of at most MaxTextLen characters over a letter and the newline
Texts == UNION { [1..n -> {"a", NL}] : n \in 0..MaxTextLen }

NoValidation == [isValid |-> FALSE, adjustedText |-> <<>>]

ChunkIdle ==
    /\ content = <<>> /\ chunks = <<>> /\ classChunks = <<>> /\ joined = <<>>
    /\ cpc = "idle"

ValidateIdle ==
    /\ originalText = <<>> /\ translatedText = <<>> /\ validation = NoValidation
    /\ vpc = "idle"

(***************************************************************************)
(* The chunk pipeline: processChunkPipeline is ChunkMarkdown, then          *)
(* JoinChunks on the contents of the chunks.                               *)
(***************************************************************************)
ChunkStart ==
    /\ content \in Docs
    /\ chunks = <<>> /\ classChunks = <<>> /\ joined = <<>>
    /\ cpc = "start"

ChunkMarkdown ==
    /\ cpc = "start"
    /\ chunks' = chunkMarkdown(content)
    /\ cpc' = "chunked"
    /\ UNCHANGED <<content, classChunks, joined, validateVars, retryVars, joinVars, workflowVars, contextVars,
                 proofreaderVars, translateVars, mainVars>>

ClassChunkMarkdown ==
    /\ cpc \in {"start", "chunked", "joined"}
    /\ classChunks = <<>>
    /\ classChunks' = SemanticChunker_chunkMarkdown(content)
    /\ UNCHANGED <<content, chunks, joined, cpc, validateVars, retryVars, joinVars, workflowVars, contextVars,
                 proofreaderVars, translateVars, mainVars>>

JoinChunks ==
    /\ cpc = "chunked"
    /\ joined' = joinChunks(chunkContentsOf(chunks))
    /\ cpc' = "joined"
    /\ UNCHANGED <<content, chunks, classChunks, validateVars, retryVars, joinVars, workflowVars, contextVars,
                 proofreaderVars, translateVars, mainVars>>

NextChunk == ChunkMarkdown \/ ClassChunkMarkdown \/ JoinChunks

(***************************************************************************)
(* One call of validateLineCount.                                          *)
(***************************************************************************)
ValidateStart ==
    /\ originalText \in Texts
    /\ translatedText \in Texts
    /\ validation = NoValidation
    /\ vpc = "start"

ValidateLineCount ==
    /\ vpc = "start"
    /\ validation' = validateLineCount(originalText, translatedText)
    /\ vpc' = "validated"
    /\ UNCHANGED <<originalText, translatedText, chunkVars, retryVars, joinVars, workflowVars, contextVars,
                 proofreaderVars, translateVars, mainVars>>

NextValidate == ValidateLineCount

(***************************************************************************)
(* utils/retry.ts: retryUntilSuccess<T> with T = string.                   *)
(*                                                                         *)
(* attempt and validate are the caller's: every call of attempt returns any *)
(* of Results or throws any of Errors, every call of validate returns true, *)
(* any of Reasons, or throws.  onError is a logging callback (it returns);  *)
(* onMaxAttemptsReached returns any of Results.                            *)
(***************************************************************************)
NULL == "<null>"
UNDEFINED == "<undefined>"

\* what attempt may return; "" is the empty string, a falsy value of T
Results == {"", "r1", "r2"}
\* what attempt and validate may throw
Errors == {"E1", "E2"}
\* the failure reasons validate may return
Reasons == {"why1", "why2"}

\* the template literal that turns a caught error into a failure reason
\* (its fixed part is Japanese for "execution error")
errorReason(error) == "Execution error: " \o error

\* lastResult || undefined: every falsy value (null, the empty string)
\* becomes undefined
previousResultOf(last) == IF last = NULL \/ last = "" THEN UNDEFINED ELSE last

NoContext == [present |-> FALSE, failureReason |-> UNDEFINED, previousResult |-> UNDEFINED]

\* const lastAttemptResult = attemptNumber === 1 ? undefined : { ... }
lastAttemptResultOf(n, reason, last) ==
    IF n = 1 THEN NoContext
    ELSE [present |-> TRUE, failureReason |-> reason,
          previousResult |-> previousResultOf(last)]

\* the loop condition attemptNumber <= maxAttempts
loopContinues_oneShort(n, max) == n < max

loopContinues(n, max) == n <= max

\* attemptNumber++
nextAttemptNumber_stuck(n) == n

nextAttemptNumber(n) == n + 1

\* lastResult = result
storeResult_keepFirst(previous, result) == IF previous = NULL THEN result ELSE previous

storeResult(previous, result) == result

\* onError?.(error, attemptNumber)
reportError_zeroBased(calls, supplied, error, n) ==
    IF supplied THEN Append(calls, [error |-> error, attemptNumber |-> n - 1]) ELSE calls

reportError(calls, supplied, error, n) ==
    IF supplied THEN Append(calls, [error |-> error, attemptNumber |-> n]) ELSE calls

\* if (onMaxAttemptsReached && lastResult !== null)
callsExhaustedHandler(supplied, last) == supplied /\ last # NULL

Running == [kind |-> "running", value |-> UNDEFINED, validated |-> FALSE]

RetryIdle ==
    /\ maxAttempts = 0 /\ hasOnError = FALSE /\ hasOnMaxAttemptsReached = FALSE
    /\ attemptNumber = 1 /\ lastResult = NULL /\ lastFailureReason = UNDEFINED
    /\ attemptCalls = <<>> /\ validateCalls = <<>> /\ onErrorCalls = <<>>
    /\ exhaustedCalls = <<>> /\ outcome = Running /\ rpc = "idle"

\* retryUntilSuccess has been called: the options are destructured, lastResult
\* is null, lastFailureReason undefined, attemptNumber 1
RetryStart ==
    /\ maxAttempts \in 0..MaxAttemptsBound
    /\ hasOnError \in BOOLEAN
    /\ hasOnMaxAttemptsReached \in BOOLEAN
    /\ attemptNumber = 1 /\ lastResult = NULL /\ lastFailureReason = UNDEFINED
    /\ attemptCalls = <<>> /\ validateCalls = <<>> /\ onErrorCalls = <<>>
    /\ exhaustedCalls = <<>> /\ outcome = Running /\ rpc = "loop"

\* an iteration of the loop starts; the cap on the log keeps the state space
\* finite and is never reached while the loop counter advances
InLoop ==
    /\ rpc = "loop"
    /\ loopContinues(attemptNumber, maxAttempts)
    /\ Len(attemptCalls) <= MaxAttemptsBound

AttemptCall(threw, result, error, validated) ==
    [n |-> attemptNumber,
     context |-> lastAttemptResultOf(attemptNumber, lastFailureReason, lastResult),
     threw |-> threw, result |-> result, error |-> error, validated |-> validated]

\* validate called with the result of the attempt before
ValidateCall_previousResult(arg, valid, reason, threw, error) ==
    [n |-> attemptNumber, arg |-> lastResult, valid |-> valid, reason |-> reason,
     threw |-> threw, error |-> error]

ValidateCall(arg, valid, reason, threw, error) ==
    [n |-> attemptNumber, arg |-> arg, valid |-> valid, reason |-> reason,
     threw |-> threw, error |-> error]

\* attempt returns result and validate(result) === true: return result
AttemptValidated(result) ==
    /\ InLoop
    /\ attemptCalls' = Append(attemptCalls, AttemptCall(FALSE, result, UNDEFINED, TRUE))
    /\ lastResult' = storeResult(lastResult, result)
    /\ validateCalls' = Append(validateCalls,
                               ValidateCall(result, TRUE, UNDEFINED, FALSE, UNDEFINED))
    /\ outcome' = [kind |-> "returned", value |-> result, validated |-> TRUE]
    /\ rpc' = "done"
    /\ UNCHANGED <<maxAttempts, hasOnError, hasOnMaxAttemptsReached, attemptNumber,
                   lastFailureReason, onErrorCalls, exhaustedCalls,
                   chunkVars, validateVars, joinVars, workflowVars, contextVars,
                 proofreaderVars, translateVars, mainVars>>

\* attempt returns result and validate(result) is a failure reason
AttemptRejected(result, reason) ==
    /\ InLoop
    /\ attemptCalls' = Append(attemptCalls, AttemptCall(FALSE, result, UNDEFINED, FALSE))
    /\ lastResult' = storeResult(lastResult, result)
    /\ validateCalls' = Append(validateCalls,
                               ValidateCall(result, FALSE, reason, FALSE, UNDEFINED))
    /\ lastFailureReason' = reason
    /\ attemptNumber' = nextAttemptNumber(attemptNumber)
    /\ UNCHANGED <<maxAttempts, hasOnError, hasOnMaxAttemptsReached, onErrorCalls,
                   exhaustedCalls, outcome, rpc, chunkVars, validateVars, joinVars, workflowVars, contextVars,
                 proofreaderVars, translateVars, mainVars>>

\* attempt throws: the catch block reports and records the error
AttemptThrows(error) ==
    /\ InLoop
    /\ attemptCalls' = Append(attemptCalls, AttemptCall(TRUE, UNDEFINED, error, FALSE))
    /\ onErrorCalls' = reportError(onErrorCalls, hasOnError, error, attemptNumber)
    /\ lastFailureReason' = errorReason(error)
    /\ attemptNumber' = nextAttemptNumber(attemptNumber)
    /\ UNCHANGED <<maxAttempts, hasOnError, hasOnMaxAttemptsReached, lastResult,
                   validateCalls, exhaustedCalls, outcome, rpc, chunkVars, validateVars, joinVars, workflowVars, contextVars,
                 proofreaderVars, translateVars, mainVars>>

\* attempt returns result and validate(result) throws: lastResult is already
\* assigned when the catch block runs
ValidateThrows(result, error) ==
    /\ InLoop
    /\ attemptCalls' = Append(attemptCalls, AttemptCall(FALSE, result, UNDEFINED, FALSE))
    /\ lastResult' = storeResult(lastResult, result)
    /\ validateCalls' = Append(validateCalls,
                               ValidateCall(result, FALSE, UNDEFINED, TRUE, error))
    /\ onErrorCalls' = reportError(onErrorCalls, hasOnError, error, attemptNumber)
    /\ lastFailureReason' = errorReason(error)
    /\ attemptNumber' = nextAttemptNumber(attemptNumber)
    /\ UNCHANGED <<maxAttempts, hasOnError, hasOnMaxAttemptsReached, exhaustedCalls,
                   outcome, rpc, chunkVars, validateVars, joinVars, workflowVars, contextVars,
                 proofreaderVars, translateVars, mainVars>>

\* the code after the loop reached while attempts remain
LoopEnded_beforeBudget == rpc = "loop" /\ attemptNumber > 1

LoopEnded == rpc = "loop" /\ ~loopContinues(attemptNumber, maxAttempts)

\* return onMaxAttemptsReached(lastResult)
ExhaustedHandler(returned) ==
    /\ LoopEnded
    /\ callsExhaustedHandler(hasOnMaxAttemptsReached, lastResult)
    /\ exhaustedCalls' = Append(exhaustedCalls, [arg |-> lastResult, returned |-> returned])
    /\ outcome' = [kind |-> "returned", value |-> returned, validated |-> FALSE]
    /\ rpc' = "done"
    /\ UNCHANGED <<maxAttempts, hasOnError, hasOnMaxAttemptsReached, attemptNumber,
                   lastResult, lastFailureReason, attemptCalls, validateCalls,
                   onErrorCalls, chunkVars, validateVars, joinVars, workflowVars, contextVars,
                 proofreaderVars, translateVars, mainVars>>

\* return lastResult
ExhaustedLastResult ==
    /\ LoopEnded
    /\ ~callsExhaustedHandler(hasOnMaxAttemptsReached, lastResult)
    /\ lastResult # NULL
    /\ outcome' = [kind |-> "returned", value |-> lastResult, validated |-> FALSE]
    /\ rpc' = "done"
    /\ UNCHANGED <<maxAttempts, hasOnError, hasOnMaxAttemptsReached, attemptNumber,
                   lastResult, lastFailureReason, attemptCalls, validateCalls,
                   onErrorCalls, exhaustedCalls, chunkVars, validateVars, joinVars, workflowVars, contextVars,
                 proofreaderVars, translateVars, mainVars>>

\* throw new Error(`Failed after ${maxAttempts} attempts with no valid result`)
ExhaustedThrows ==
    /\ LoopEnded
    /\ ~callsExhaustedHandler(hasOnMaxAttemptsReached, lastResult)
    /\ lastResult = NULL
    /\ outcome' = [kind |-> "threw", value |-> "Failed after maxAttempts attempts with no valid result",
                   validated |-> FALSE]
    /\ rpc' = "done"
    /\ UNCHANGED <<maxAttempts, hasOnError, hasOnMaxAttemptsReached, attemptNumber,
                   lastResult, lastFailureReason, attemptCalls, validateCalls,
                   onErrorCalls, exhaustedCalls, chunkVars, validateVars, joinVars, workflowVars, contextVars,
                 proofreaderVars, translateVars, mainVars>>

NextRetry ==
    \/ \E result \in Results : AttemptValidated(result)
    \/ \E result \in Results : \E reason \in Reasons : AttemptRejected(result, reason)
    \/ \E error \in Errors : AttemptThrows(error)
    \/ \E result \in Results : \E error \in Errors : ValidateThrows(result, error)
    \/ \E returned \in Results : ExhaustedHandler(returned)
    \/ ExhaustedLastResult
    \/ ExhaustedThrows

(***************************************************************************)
(* joinChunks called on an arbitrary list of segment texts.                *)
(***************************************************************************)
\* every segment text of at most MaxSegmentLen characters
SegmentTexts == UNION { [1..n -> {"a", NL}] : n \in 0..MaxSegmentLen }

\* every list of at most MaxSegments segment texts, the empty list included
SegmentLists == UNION { [1..n -> SegmentTexts] : n \in 0..MaxSegments }

JoinIdle == segments = <<>> /\ joinedSegments = <<>> /\ jpc = "idle"

JoinStart == segments \in SegmentLists /\ joinedSegments = <<>> /\ jpc = "start"

JoinSegments ==
    /\ jpc = "start"
    /\ joinedSegments' = joinChunks(segments)
    /\ jpc' = "joined"
    /\ UNCHANGED <<segments, chunkVars, validateVars, retryVars, workflowVars, contextVars,
                 proofreaderVars, translateVars, mainVars>>

NextJoin == JoinSegments

(***************************************************************************)
(* The translation workflow.                                               *)
(***************************************************************************)
\* processedChunks.push(finalText) overwriting the last entry
pushProcessed_overwritesLast(list, finalText) ==
    IF Len(list) = 0 THEN <<finalText>>
    ELSE [list EXCEPT ![Len(list)] = finalText]

\* processedChunks.push(finalText)
pushProcessed(list, finalText) == Append(list, finalText)

\* documents handed to the workflow: lines of text, headings and blank lines
WorkflowLineSet == { <<>>, <<"a">>, <<"#", " ", "a">> }

WorkflowDocs ==
    { arrayJoin(ls) : ls \in UNION { [1..n -> WorkflowLineSet] : n \in 1..MaxWorkflowLines } }

\* options.maxRetries: <<>> when left out, <<n>> for the number n
RetryOptionValues == { <<>> } \cup { <<n>> : n \in 0..MaxRetriesOption }

DefaultMaxRetries == 3

\* options: { maxRetries: 3 } of the call of workflow.run in main
CliMaxRetries == 3

\* options.maxRetries ?? 3: a limit of 0 is kept
maxRetriesOf_keepsZero(option) ==
    IF Len(option) = 0 THEN DefaultMaxRetries ELSE option[1]

\* options.maxRetries || 3: undefined and 0 are falsy
maxRetriesOf(option) ==
    IF Len(option) = 0 THEN DefaultMaxRetries
    ELSE IF option[1] = 0 THEN DefaultMaxRetries
    ELSE option[1]

\* what translator.run can resolve to for a text: the text itself, the text
\* with a newline appended (one line more, reconcilable), the text with a
\* further line appended (not reconcilable), the empty string
TranslatorOutputs(text) ==
    { text, text \o <<NL>>, text \o <<NL, "b">>, <<>> }

\* what proofreader.run can resolve to for a text: without lint messages the
\* text itself and no remaining errors; with lint messages whatever the
\* correction gave, with or without remaining errors
ProofreaderOutputs(text) ==
    { [fixedText |-> text, remainingErrors |-> UNDEFINED] }
    \cup { [fixedText |-> f, remainingErrors |-> e] :
               f \in { text, text \o <<NL>>, text \o <<NL, "b">> },
               e \in { UNDEFINED, "lint" } }

\* the errors translator.run and proofreader.run can reject with
StageErrors == {"E1"}

TranslationReason == "line count differs after translation"
ProofreadLineReason == "line count differs after proofreading"
proofreadLintReason(remainingErrors) == "textlint errors remain: " \o remainingErrors

\* the validate callback of the translation stage accepting every candidate
translationValidate_acceptsAll(chunkContent, candidate) == "true"

\* the validate callback of the translation stage
translationValidate(chunkContent, candidate) ==
    IF validateLineCount(chunkContent, candidate).isValid THEN "true"
    ELSE TranslationReason

\* the validate callback of the proofreading stage
proofreadValidate(translated, result) ==
    IF ~validateLineCount(translated, result.fixedText).isValid THEN ProofreadLineReason
    ELSE IF result.remainingErrors # UNDEFINED THEN proofreadLintReason(result.remainingErrors)
    ELSE "true"

\* onMaxAttemptsReached of the translation stage giving up the candidate
translationOnMaxAttemptsReached_discards(last) == <<>>

\* onMaxAttemptsReached: lastResult => lastResult, of the translation stage
translationOnMaxAttemptsReached(last) == last

\* onMaxAttemptsReached: lastResult => lastResult, of the proofreading stage
proofreadOnMaxAttemptsReached(last) == last

\* previousResult: lastResult || undefined, for a string result
previousTranslationOf(last) ==
    IF Len(last) = 0 THEN <<>> ELSE IF last[1] = <<>> THEN <<>> ELSE last

\* lastAttemptResult?.previousResult?.fixedText, for a ProofreadResult
previousFixedTextOf(last) ==
    IF Len(last) = 0 THEN <<>> ELSE << last[1].fixedText >>

\* lastAttemptResult?.failureReason
retryReasonOf(n, reason) == IF n = 1 THEN UNDEFINED ELSE reason

NoStageCall ==
    [chunkNumber |-> 0, stage |-> "none", attemptNumber |-> 0, text |-> <<>>,
     retryReason |-> UNDEFINED, previousFailedAttempt |-> <<>>]

NoValidateCall ==
    [chunkNumber |-> 0, stage |-> "none", original |-> <<>>, candidate |-> <<>>]

WorkflowRunning == [kind |-> "running"]

\* return { translatedContent: finalValidation.adjustedText, hasProofreadErrors }
workflowOutput(validated, flag) ==
    [kind |-> "returned", translatedContent |-> validated.adjustedText,
     hasProofreadErrors |-> flag]

\* the error of the chunk carrying index where the code has chunkNumber
chunkError_zeroBased(n, attempts) ==
    [kind |-> "threw", chunkNumber |-> n - 1,
     cause |-> [message |-> "Failed after attempts with no valid result",
                maxAttempts |-> attempts]]

\* throw new Error(`Failed after ${maxAttempts} attempts with no valid result`)
\* caught and wrapped with the chunk number
chunkError(n, attempts) ==
    [kind |-> "threw", chunkNumber |-> n,
     cause |-> [message |-> "Failed after attempts with no valid result",
                maxAttempts |-> attempts]]

WorkflowIdle ==
    /\ originalContent = <<>> /\ maxRetries = 0 /\ workflowChunks = <<>>
    /\ chunkNumber = 0 /\ stageAttemptNumber = 1 /\ stageLastResult = <<>>
    /\ stageLastFailureReason = UNDEFINED /\ translatedChunk = <<>>
    /\ processedChunks = <<>> /\ hasProofreadErrors = FALSE
    /\ finalContent = <<>> /\ finalValidation = NoValidation
    /\ workflowOutcome = WorkflowRunning /\ lastStageCall = NoStageCall
    /\ lastValidateCall = NoValidateCall /\ unvalidatedStages = {}
    /\ allIdentity = TRUE /\ wpc = "idle"

\* translateMarkdownContent has been called
WorkflowStart ==
    /\ originalContent \in WorkflowDocs
    /\ \E option \in RetryOptionValues : maxRetries = maxRetriesOf(option)
    /\ workflowChunks = <<>>
    /\ chunkNumber = 0 /\ stageAttemptNumber = 1 /\ stageLastResult = <<>>
    /\ stageLastFailureReason = UNDEFINED /\ translatedChunk = <<>>
    /\ processedChunks = <<>> /\ hasProofreadErrors = FALSE
    /\ finalContent = <<>> /\ finalValidation = NoValidation
    /\ workflowOutcome = WorkflowRunning /\ lastStageCall = NoStageCall
    /\ lastValidateCall = NoValidateCall /\ unvalidatedStages = {}
    /\ allIdentity = TRUE /\ wpc = "start"


\* the flag raised whenever remainingErrors is not null, undefined included
raiseProofreadFlag_notNull(flag, remainingErrors) ==
    IF remainingErrors # NULL THEN TRUE ELSE flag

\* if (proofreadResult.remainingErrors) hasProofreadErrors = true
raiseProofreadFlag(flag, remainingErrors) ==
    IF remainingErrors # UNDEFINED THEN TRUE ELSE flag

\* the for loop staying at its chunk
nextChunkNumber_stays(n) == n

\* for (const [index, chunk] of chunks.entries()): the next chunk
nextChunkNumber(n) == n + 1

\* the first chunk whatever chunk the for loop is at
currentChunk_first == workflowChunks[1]

\* the chunk the for loop is at
currentChunk == workflowChunks[chunkNumber]

\* chunks = await chunkMarkdown(originalContent); the for loop enters its
\* first iteration and calls retryUntilSuccess for the translation
ChunkDocument ==
    /\ wpc = "start"
    /\ workflowChunks' = chunkMarkdown(originalContent)
    /\ chunkNumber' = 1
    /\ wpc' = "translation"
    /\ UNCHANGED <<originalContent, maxRetries, stageAttemptNumber, stageLastResult,
                   stageLastFailureReason, translatedChunk, processedChunks,
                   hasProofreadErrors, finalContent, finalValidation, workflowOutcome,
                   lastStageCall, lastValidateCall, unvalidatedStages, allIdentity,
                   chunkVars, validateVars, retryVars, joinVars, contextVars,
                 proofreaderVars, translateVars, mainVars>>

\* a retryUntilSuccess call starts: lastResult null, lastFailureReason
\* undefined, attemptNumber 1
StageReset ==
    /\ stageAttemptNumber' = 1
    /\ stageLastResult' = <<>>
    /\ stageLastFailureReason' = UNDEFINED

\* the loop of retryUntilSuccess goes on to its next iteration
StageRetry(last, reason) ==
    /\ stageAttemptNumber' = nextAttemptNumber(stageAttemptNumber)
    /\ stageLastResult' = last
    /\ stageLastFailureReason' = reason

\* the loop of retryUntilSuccess ends with this failed iteration
stageExhausted == ~loopContinues(nextAttemptNumber(stageAttemptNumber), maxRetries)

\* the translation's retryUntilSuccess resolved to translatedText: the line
\* count is checked and adjusted, and the proofreading's call starts
EndTranslation(resolvedText, validated) ==
    /\ translatedChunk' = validateLineCount(currentChunk.content, resolvedText).adjustedText
    /\ unvalidatedStages' =
           IF validated THEN unvalidatedStages
           ELSE unvalidatedStages \cup {<<chunkNumber, "translation">>}
    /\ StageReset
    /\ wpc' = "proofreading"
    /\ UNCHANGED <<chunkNumber, processedChunks, hasProofreadErrors, workflowOutcome>>

\* the proofreading's retryUntilSuccess resolved to proofreadResult: the flag
\* is raised on remaining errors, the line count checked and adjusted, the
\* final text pushed; the for loop goes on to the next chunk or ends
EndProofreading(proofreadResult, validated) ==
    /\ hasProofreadErrors' =
           raiseProofreadFlag(hasProofreadErrors, proofreadResult.remainingErrors)
    /\ processedChunks' =
           pushProcessed(processedChunks,
               validateLineCount(translatedChunk, proofreadResult.fixedText).adjustedText)
    /\ unvalidatedStages' =
           IF validated THEN unvalidatedStages
           ELSE unvalidatedStages \cup {<<chunkNumber, "proofreading">>}
    /\ StageReset
    /\ IF chunkNumber < Len(workflowChunks)
       THEN chunkNumber' = nextChunkNumber(chunkNumber) /\ wpc' = "translation"
       ELSE chunkNumber' = chunkNumber /\ wpc' = "join"
    /\ UNCHANGED <<translatedChunk, workflowOutcome>>

\* retryUntilSuccess threw, no attempt having returned: the catch block of
\* the for loop throws the error of the chunk and the workflow ends
AbortChunk(stage, reason) ==
    /\ workflowOutcome' = chunkError(chunkNumber, maxRetries)
    /\ unvalidatedStages' = unvalidatedStages \cup {<<chunkNumber, stage>>}
    /\ stageAttemptNumber' = nextAttemptNumber(stageAttemptNumber)
    /\ stageLastFailureReason' = reason
    /\ wpc' = "done"
    /\ UNCHANGED <<chunkNumber, stageLastResult, translatedChunk, processedChunks,
                   hasProofreadErrors>>

\* a failed iteration that does not end the loop
StageGoesOn(last, reason) ==
    /\ StageRetry(last, reason)
    /\ UNCHANGED <<chunkNumber, translatedChunk, processedChunks, hasProofreadErrors,
                   workflowOutcome, unvalidatedStages, wpc>>

\* the translation stage entered for chunks flagged as needing translation only
InTranslation_flaggedOnly ==
    /\ wpc = "translation" /\ loopContinues(stageAttemptNumber, maxRetries)
    /\ currentChunk.needsTranslation

InTranslation == wpc = "translation" /\ loopContinues(stageAttemptNumber, maxRetries)

TranslatorCall ==
    [chunkNumber |-> chunkNumber, stage |-> "translation",
     attemptNumber |-> stageAttemptNumber, text |-> currentChunk.content,
     retryReason |-> retryReasonOf(stageAttemptNumber, stageLastFailureReason),
     previousFailedAttempt |->
         IF stageAttemptNumber = 1 THEN <<>> ELSE previousTranslationOf(stageLastResult)]

\* translator.run resolves to result; validate checks it against the chunk
TranslatorReturns(result) ==
    /\ InTranslation
    /\ lastStageCall' = TranslatorCall
    /\ lastValidateCall' =
           [chunkNumber |-> chunkNumber, stage |-> "translation",
            original |-> currentChunk.content, candidate |-> result]
    /\ allIdentity' = (allIdentity /\ result = currentChunk.content)
    /\ IF translationValidate(currentChunk.content, result) = "true"
       THEN EndTranslation(result, TRUE)
       ELSE IF stageExhausted
       THEN EndTranslation(
                translationOnMaxAttemptsReached(storeResult(stageLastResult, <<result>>)[1]),
                FALSE)
       ELSE StageGoesOn(storeResult(stageLastResult, <<result>>), TranslationReason)
    /\ UNCHANGED <<originalContent, maxRetries, workflowChunks, finalContent,
                   finalValidation, chunkVars, validateVars, retryVars, joinVars, contextVars,
                 proofreaderVars, translateVars, mainVars>>

\* translator.run rejects: the catch block of the loop records the error
TranslatorThrows(error) ==
    /\ InTranslation
    /\ lastStageCall' = TranslatorCall
    /\ allIdentity' = FALSE
    /\ IF ~stageExhausted
       THEN StageGoesOn(stageLastResult, errorReason(error))
       ELSE IF Len(stageLastResult) # 0
       THEN EndTranslation(translationOnMaxAttemptsReached(stageLastResult[1]), FALSE)
       ELSE AbortChunk("translation", errorReason(error))
    /\ UNCHANGED <<originalContent, maxRetries, workflowChunks, finalContent,
                   finalValidation, lastValidateCall,
                   chunkVars, validateVars, retryVars, joinVars, contextVars,
                 proofreaderVars, translateVars, mainVars>>

InProofreading == wpc = "proofreading" /\ loopContinues(stageAttemptNumber, maxRetries)

ProofreaderCall ==
    [chunkNumber |-> chunkNumber, stage |-> "proofreading",
     attemptNumber |-> stageAttemptNumber, text |-> translatedChunk,
     retryReason |-> retryReasonOf(stageAttemptNumber, stageLastFailureReason),
     previousFailedAttempt |->
         IF stageAttemptNumber = 1 THEN <<>> ELSE previousFixedTextOf(stageLastResult)]

\* proofreader.run resolves to result; validate checks its line count
\* against the translated chunk, then its remaining errors
ProofreaderReturns(result) ==
    /\ InProofreading
    /\ lastStageCall' = ProofreaderCall
    /\ lastValidateCall' =
           [chunkNumber |-> chunkNumber, stage |-> "proofreading",
            original |-> translatedChunk, candidate |-> result.fixedText]
    /\ allIdentity' =
           (allIdentity /\ result = [fixedText |-> translatedChunk,
                                     remainingErrors |-> UNDEFINED])
    /\ IF proofreadValidate(translatedChunk, result) = "true"
       THEN EndProofreading(result, TRUE)
       ELSE IF stageExhausted
       THEN EndProofreading(
                proofreadOnMaxAttemptsReached(storeResult(stageLastResult, <<result>>)[1]),
                FALSE)
       ELSE StageGoesOn(storeResult(stageLastResult, <<result>>),
                        proofreadValidate(translatedChunk, result))
    /\ UNCHANGED <<originalContent, maxRetries, workflowChunks, finalContent,
                   finalValidation, chunkVars, validateVars, retryVars, joinVars, contextVars,
                 proofreaderVars, translateVars, mainVars>>

\* proofreader.run rejects
ProofreaderThrows(error) ==
    /\ InProofreading
    /\ lastStageCall' = ProofreaderCall
    /\ allIdentity' = FALSE
    /\ IF ~stageExhausted
       THEN StageGoesOn(stageLastResult, errorReason(error))
       ELSE IF Len(stageLastResult) # 0
       THEN EndProofreading(proofreadOnMaxAttemptsReached(stageLastResult[1]), FALSE)
       ELSE AbortChunk("proofreading", errorReason(error))
    /\ UNCHANGED <<originalContent, maxRetries, workflowChunks, finalContent,
                   finalValidation, lastValidateCall,
                   chunkVars, validateVars, retryVars, joinVars, contextVars,
                 proofreaderVars, translateVars, mainVars>>

\* const finalContent = joinChunks(processedChunks)
JoinProcessedChunks ==
    /\ wpc = "join"
    /\ finalContent' = joinChunks(processedChunks)
    /\ wpc' = "finalValidation"
    /\ UNCHANGED <<originalContent, maxRetries, workflowChunks, chunkNumber,
                   stageAttemptNumber, stageLastResult, stageLastFailureReason,
                   translatedChunk, processedChunks, hasProofreadErrors,
                   finalValidation, workflowOutcome, lastStageCall, lastValidateCall,
                   unvalidatedStages, allIdentity,
                   chunkVars, validateVars, retryVars, joinVars, contextVars,
                 proofreaderVars, translateVars, mainVars>>

\* the line count of the whole document is checked, a mismatch logged, and
\* the adjusted text returned with the proofreading flag
FinalValidation ==
    /\ wpc = "finalValidation"
    /\ finalValidation' = validateLineCount(originalContent, finalContent)
    /\ lastValidateCall' =
           [chunkNumber |-> 0, stage |-> "final",
            original |-> originalContent, candidate |-> finalContent]
    /\ workflowOutcome' =
           workflowOutput(validateLineCount(originalContent, finalContent),
                          hasProofreadErrors)
    /\ wpc' = "done"
    /\ UNCHANGED <<originalContent, maxRetries, workflowChunks, chunkNumber,
                   stageAttemptNumber, stageLastResult, stageLastFailureReason,
                   translatedChunk, processedChunks, hasProofreadErrors,
                   finalContent, lastStageCall, unvalidatedStages, allIdentity,
                   chunkVars, validateVars, retryVars, joinVars, contextVars,
                 proofreaderVars, translateVars, mainVars>>

NextWorkflow ==
    \/ ChunkDocument
    \/ wpc = "translation" /\ \E result \in TranslatorOutputs(currentChunk.content) :
                                  TranslatorReturns(result)
    \/ \E error \in StageErrors : TranslatorThrows(error)
    \/ \E result \in ProofreaderOutputs(translatedChunk) : ProofreaderReturns(result)
    \/ \E error \in StageErrors : ProofreaderThrows(error)
    \/ JoinProcessedChunks
    \/ FinalValidation

(***************************************************************************)
(* translation-workflow.ts: translateMarkdownFile, the workflow that hands *)
(* the translator the outputs of the chunks before the one it translates.  *)
(*                                                                         *)
(* translator.run and proofreader.run are the agents': each call returns   *)
(* one of its outputs or throws.  File reading, writing and debug logging  *)
(* change no state of the model.                                           *)
(***************************************************************************)

\* what translator.run may return for a chunk, and proofreader.run as the
\* text of its result for a translated chunk
AgentRunOutputs(text) == { text, <<"j">> \o text }

\* Translator.buildTranslationContext: one entry per part of the context
\* string, <<>> for the message that there is no previous chunk.  The parts
\* are made of previousTranslations.slice(-2); a translation of more than 200
\* characters is shown by its first and last 100 with '\n...\n' in between.
buildTranslationContext(list) ==
    IF Len(list) = 0 THEN <<>>
    ELSE LET recentTranslations ==
                 IF Len(list) <= RecentCount THEN list
                 ELSE SubSeq(list, Len(list) - RecentCount + 1, Len(list))
         IN [index \in 1..Len(recentTranslations) |->
                LET translation == recentTranslations[index]
                IN  [chunkNum |-> Len(list) - Len(recentTranslations) + (index - 1) + 1,
                     preview |->
                         IF Len(translation) > PreviewLimit
                         THEN SubSeq(translation, 1, PreviewHalf)
                              \o <<NL, ".", ".", ".", NL>>
                              \o SubSeq(translation, Len(translation) - PreviewHalf + 1,
                                        Len(translation))
                         ELSE translation]]

pushTranslation_unshifts(list, text) == <<text>> \o list

\* previousTranslations.push(...)
pushTranslation(list, text) == Append(list, text)

ContextIdle ==
    /\ fileOriginalContent = <<>> /\ fileChunks = <<>> /\ fileChunkNumber = 0
    /\ fileTranslatedChunk = <<>> /\ fileProcessedChunks = <<>>
    /\ previousTranslations = <<>>
    /\ translatorInput = [chunkNumber |-> 0, text |-> <<>>, previousTranslations |-> <<>>]
    /\ contextInfo = <<>> /\ fileOutput = <<>> /\ fpc = "idle"

\* translateMarkdownFile has read the file: a document of at most
\* MaxContextLines lines, plain ones and headings
ContextStart ==
    /\ fileOriginalContent \in
           { arrayJoin(ls) : ls \in UNION { [1..n -> { <<"a">>, <<"#", " ", "a">> }] :
                                              n \in 1..MaxContextLines } }
    /\ fileChunks = <<>> /\ fileChunkNumber = 0
    /\ fileTranslatedChunk = <<>> /\ fileProcessedChunks = <<>>
    /\ previousTranslations = <<>>
    /\ translatorInput = [chunkNumber |-> 0, text |-> <<>>, previousTranslations |-> <<>>]
    /\ contextInfo = <<>> /\ fileOutput = <<>> /\ fpc = "start"

\* const chunks = await chunkMarkdown(originalContent), then the for loop is entered
FileChunkDocument ==
    /\ fpc = "start"
    /\ fileChunks' = chunkMarkdown(fileOriginalContent)
    /\ fileChunkNumber' = 1
    /\ fpc' = IF Len(fileChunks') = 0 THEN "join" ELSE "translation"
    /\ UNCHANGED <<fileOriginalContent, fileTranslatedChunk, fileProcessedChunks,
                   previousTranslations, translatorInput, contextInfo, fileOutput,
                   chunkVars, validateVars, retryVars, joinVars, workflowVars,
                   proofreaderVars, translateVars, mainVars>>

\* translator.run({ text: chunk.content, previousTranslations, maxRetries })
\* returned; every attempt of the translator builds its context from the list
FileTranslatorReturns(result) ==
    /\ fpc = "translation"
    /\ translatorInput' = [chunkNumber |-> fileChunkNumber,
                           text |-> fileChunks[fileChunkNumber].content,
                           previousTranslations |-> previousTranslations]
    /\ contextInfo' = buildTranslationContext(previousTranslations)
    /\ fileTranslatedChunk' = result
    /\ fpc' = "proofreading"
    /\ UNCHANGED <<fileOriginalContent, fileChunks, fileChunkNumber, fileProcessedChunks,
                   previousTranslations, fileOutput,
                   chunkVars, validateVars, retryVars, joinVars, workflowVars,
                   proofreaderVars, translateVars, mainVars>>

\* proofreader.run({ text: translatedChunk, maxRetries }) returned: its text
\* is pushed on both lists and the loop goes to the next chunk
FileProofreaderReturns(text) ==
    /\ fpc = "proofreading"
    /\ fileProcessedChunks' = Append(fileProcessedChunks, text)
    /\ previousTranslations' = pushTranslation(previousTranslations, text)
    /\ fileChunkNumber' = fileChunkNumber + 1
    /\ fpc' = IF fileChunkNumber = Len(fileChunks) THEN "join" ELSE "translation"
    /\ UNCHANGED <<fileOriginalContent, fileChunks, fileTranslatedChunk, translatorInput,
                   contextInfo, fileOutput,
                   chunkVars, validateVars, retryVars, joinVars, workflowVars,
                   proofreaderVars, translateVars, mainVars>>

\* translator.run or proofreader.run threw: catch (error) pushes the original
\* chunk on both lists and the loop goes to the next chunk
FileChunkFails ==
    /\ fpc \in {"translation", "proofreading"}
    /\ IF fpc = "translation"
       THEN /\ translatorInput' = [chunkNumber |-> fileChunkNumber,
                                   text |-> fileChunks[fileChunkNumber].content,
                                   previousTranslations |-> previousTranslations]
            /\ contextInfo' = buildTranslationContext(previousTranslations)
       ELSE UNCHANGED <<translatorInput, contextInfo>>
    /\ fileProcessedChunks' =
           Append(fileProcessedChunks, fileChunks[fileChunkNumber].content)
    /\ previousTranslations' =
           pushTranslation(previousTranslations, fileChunks[fileChunkNumber].content)
    /\ fileChunkNumber' = fileChunkNumber + 1
    /\ fpc' = IF fileChunkNumber = Len(fileChunks) THEN "join" ELSE "translation"
    /\ UNCHANGED <<fileOriginalContent, fileChunks, fileTranslatedChunk, fileOutput,
                   chunkVars, validateVars, retryVars, joinVars, workflowVars,
                   proofreaderVars, translateVars, mainVars>>

\* joinChunks, the final validateLineCount, and the return of its adjustedText
FileJoinAndReturn ==
    /\ fpc = "join"
    /\ fileOutput' = << validateLineCount(fileOriginalContent,
                                          joinChunks(fileProcessedChunks)).adjustedText >>
    /\ fpc' = "done"
    /\ UNCHANGED <<fileOriginalContent, fileChunks, fileChunkNumber, fileTranslatedChunk,
                   fileProcessedChunks, previousTranslations, translatorInput,
                   contextInfo,
                   chunkVars, validateVars, retryVars, joinVars, workflowVars,
                   proofreaderVars, translateVars, mainVars>>

NextContext ==
    \/ FileChunkDocument
    \/ fpc = "translation" /\ \E result \in AgentRunOutputs(fileChunks[fileChunkNumber].content) :
           FileTranslatorReturns(result)
    \/ \E text \in AgentRunOutputs(fileTranslatedChunk) : FileProofreaderReturns(text)
    \/ FileChunkFails
    \/ FileJoinAndReturn

(***************************************************************************)
(* Proofreader.run with correctTextErrors.                                 *)
(*                                                                         *)
(* textlintRunner.lintText returns diagnostics or throws; chain.invoke      *)
(* returns a text or throws.  A call of lintText is recorded with the text *)
(* it was handed, whether it threw, and the messages it returned.          *)
(***************************************************************************)

\* what lintText may return: formattedMessage is formatter.format([lintResult])
\* of the unix formatter, the empty string without messages, otherwise the
\* messages and the count of problems
Diagnostics ==
    { [messages |-> messages,
       formattedMessage |-> IF Len(messages) = 0 THEN <<>> ELSE messages \o <<"problems">>] :
        messages \in UNION { [1..n -> {"m"}] : n \in 0..MaxLintMessages } }

\* what chain.invoke may return for a text
ModelOutputs(text) == { text, <<"b">> \o text }

remainingErrorsOf_always(remainingDiagnostics) == <<remainingDiagnostics.formattedMessage>>

\* remainingDiagnostics.messages.length > 0 ? remainingDiagnostics.formattedMessage : undefined
\* (<<>> for undefined, <<message>> for a message)
remainingErrorsOf(remainingDiagnostics) ==
    IF Len(remainingDiagnostics.messages) > 0
    THEN <<remainingDiagnostics.formattedMessage>> ELSE <<>>

fallbackText_empty(text) == <<>>

\* catch (error) { return text; }
fallbackText(text) == text

ProofreaderIdle ==
    /\ proofreadInput = [text |-> <<>>, retryReason |-> UNDEFINED,
                         previousFailedAttempt |-> UNDEFINED]
    /\ lintCalls = <<>> /\ modelCalls = <<>>
    /\ diagnostics = [messages |-> <<>>, formattedMessage |-> <<>>]
    /\ fixedText = <<>> /\ modelFailed = FALSE
    /\ proofreadOutcome = [kind |-> "running"] /\ ppc = "idle"

\* Proofreader.run has been called
ProofreaderStart ==
    /\ proofreadInput \in [text : { <<"a">>, <<"a", NL, "a">> },
                           retryReason : {UNDEFINED, "reason"},
                           previousFailedAttempt : {UNDEFINED, "previous"}]
    /\ lintCalls = <<>> /\ modelCalls = <<>>
    /\ diagnostics = [messages |-> <<>>, formattedMessage |-> <<>>]
    /\ fixedText = <<>> /\ modelFailed = FALSE
    /\ proofreadOutcome = [kind |-> "running"] /\ ppc = "lint"

\* const diagnostics = await this.textlintRunner.lintText(text), and the early return
LintInput(result) ==
    /\ ppc = "lint"
    /\ lintCalls' = Append(lintCalls, [text |-> proofreadInput.text, threw |-> FALSE,
                                       messages |-> result.messages])
    /\ diagnostics' = result
    /\ IF Len(result.messages) = 0
       THEN /\ proofreadOutcome' = [kind |-> "returned", fixedText |-> proofreadInput.text,
                                    remainingErrors |-> <<>>]
            /\ ppc' = "done"
       ELSE /\ proofreadOutcome' = proofreadOutcome
            /\ ppc' = "correct"
    /\ UNCHANGED <<proofreadInput, modelCalls, fixedText, modelFailed,
                   chunkVars, validateVars, retryVars, joinVars, workflowVars,
                   contextVars, translateVars, mainVars>>

\* lintText throws, at the first or at the second call: run throws
LintTextThrows ==
    /\ ppc \in {"lint", "relint"}
    /\ lintCalls' = Append(lintCalls,
                           [text |-> IF ppc = "lint" THEN proofreadInput.text ELSE fixedText,
                            threw |-> TRUE, messages |-> <<>>])
    /\ proofreadOutcome' = [kind |-> "threw"]
    /\ ppc' = "done"
    /\ UNCHANGED <<proofreadInput, modelCalls, diagnostics, fixedText, modelFailed,
                   chunkVars, validateVars, retryVars, joinVars, workflowVars,
                   contextVars, translateVars, mainVars>>

\* the input of chain.invoke: { message: errorMessage, content: text, retryContext },
\* retryContext <<>> for '', else the reason and, if there is one, the previous attempt
modelCall ==
    [message |-> diagnostics.formattedMessage,
     content |-> proofreadInput.text,
     retryContext |->
         IF proofreadInput.retryReason = UNDEFINED THEN <<>>
         ELSE IF proofreadInput.previousFailedAttempt = UNDEFINED
         THEN <<proofreadInput.retryReason>>
         ELSE <<proofreadInput.retryReason, proofreadInput.previousFailedAttempt>>]

\* correctTextErrors when chain.invoke returns (or is not reached: errorMessage === '')
CorrectTextErrors(result) ==
    /\ ppc = "correct"
    /\ IF diagnostics.formattedMessage = <<>>
       THEN /\ result = proofreadInput.text
            /\ fixedText' = proofreadInput.text
            /\ modelCalls' = modelCalls
       ELSE /\ fixedText' = result
            /\ modelCalls' = Append(modelCalls, modelCall)
    /\ ppc' = "relint"
    /\ UNCHANGED <<proofreadInput, lintCalls, diagnostics, modelFailed, proofreadOutcome,
                   chunkVars, validateVars, retryVars, joinVars, workflowVars,
                   contextVars, translateVars, mainVars>>

\* correctTextErrors when chain.invoke throws
ModelThrows ==
    /\ ppc = "correct"
    /\ diagnostics.formattedMessage # <<>>
    /\ modelCalls' = Append(modelCalls, modelCall)
    /\ fixedText' = fallbackText(proofreadInput.text)
    /\ modelFailed' = TRUE
    /\ ppc' = "relint"
    /\ UNCHANGED <<proofreadInput, lintCalls, diagnostics, proofreadOutcome,
                   chunkVars, validateVars, retryVars, joinVars, workflowVars,
                   contextVars, translateVars, mainVars>>

\* const remainingDiagnostics = await this.textlintRunner.lintText(fixedText), and the return
Relint(result) ==
    /\ ppc = "relint"
    /\ lintCalls' = Append(lintCalls, [text |-> fixedText, threw |-> FALSE,
                                       messages |-> result.messages])
    /\ proofreadOutcome' = [kind |-> "returned", fixedText |-> fixedText,
                            remainingErrors |-> remainingErrorsOf(result)]
    /\ ppc' = "done"
    /\ UNCHANGED <<proofreadInput, modelCalls, diagnostics, fixedText, modelFailed,
                   chunkVars, validateVars, retryVars, joinVars, workflowVars,
                   contextVars, translateVars, mainVars>>

NextProofreader ==
    \/ \E result \in Diagnostics : LintInput(result)
    \/ LintTextThrows
    \/ \E result \in ModelOutputs(proofreadInput.text) : CorrectTextErrors(result)
    \/ ModelThrows
    \/ \E result \in Diagnostics : Relint(result)

(***************************************************************************)
(* translator.ts: Translator.translate, which translates the chunks of a   *)
(* document concurrently (Promise.all over chunks.map) and concatenates    *)
(* the results.                                                            *)
(*                                                                         *)
(* Every callback runs translateChunk for its chunk; the callbacks advance *)
(* one chain.invoke at a time, in any interleaving.  translateChunk        *)
(* catches what chain.invoke throws and the debug logger catches its own   *)
(* write errors, so the catch of the callback is never entered.            *)
(***************************************************************************)

\* what chain.invoke may return for a text: the same number of lines, or one more
ChainOutputs(text) == { <<"j">> \o text, text \o <<NL>> }

promiseAll_completionOrder(settled) ==
    [k \in 1..Len(settled) |-> settled[completionOrder[k]][1]]

\* await Promise.all(chunks.map(...)): the value of the i-th promise at index i
promiseAll(settled) == [i \in 1..Len(settled) |-> settled[i][1]]

TranslateIdle ==
    /\ translateContent = <<>> /\ translateMaxRetries = 0 /\ translateChunks = <<>>
    /\ chunkAttempt = <<>> /\ chunkSettled = <<>> /\ completionOrder = <<>>
    /\ translateResult = <<>> /\ tpc = "idle"

\* translate(content, maxRetries) has been called, on a document of at most
\* MaxTranslateLines lines, plain ones and headings
TranslateStart ==
    /\ translateContent \in
           { arrayJoin(ls) : ls \in UNION { [1..n -> { <<"a">>, <<"#", " ", "a">> }] :
                                              n \in 1..MaxTranslateLines } }
    /\ translateMaxRetries \in 0..MaxTranslateRetries
    /\ translateChunks = <<>> /\ chunkAttempt = <<>> /\ chunkSettled = <<>>
    /\ completionOrder = <<>> /\ translateResult = <<>> /\ tpc = "start"

\* const chunks = await this.chunker.chunkMarkdown(content), then chunks.map starts
\* one callback per chunk
TranslateChunkDocument ==
    /\ tpc = "start"
    /\ translateChunks' = SemanticChunker_chunkMarkdown(translateContent)
    /\ chunkAttempt' = [i \in 1..Len(translateChunks') |-> 1]
    /\ chunkSettled' = [i \in 1..Len(translateChunks') |-> <<>>]
    /\ tpc' = "all"
    /\ UNCHANGED <<translateContent, translateMaxRetries, completionOrder, translateResult,
                   chunkVars, validateVars, retryVars, joinVars, workflowVars,
                   contextVars, proofreaderVars, mainVars>>

\* the callback of chunk i returns text
ChunkSettles(i, text) ==
    /\ chunkSettled' = [chunkSettled EXCEPT ![i] = <<text>>]
    /\ completionOrder' = Append(completionOrder, i)
    /\ UNCHANGED chunkAttempt

\* chain.invoke returned a text with the line count of the chunk: it is returned
ChunkAttemptMatches(i, translated) ==
    /\ tpc = "all" /\ chunkSettled[i] = <<>>
    /\ chunkAttempt[i] <= translateMaxRetries
    /\ getLineCount(translateChunks[i].content) = getLineCount(translated)
    /\ ChunkSettles(i, translated)
    /\ UNCHANGED <<translateContent, translateMaxRetries, translateChunks, translateResult,
                   tpc, chunkVars, validateVars, retryVars, joinVars, workflowVars,
                   contextVars, proofreaderVars, mainVars>>

\* chain.invoke returned a text with another line count, or threw: the chunk
\* itself is returned at the last attempt, else the next attempt is made
ChunkAttemptFails(i) ==
    /\ tpc = "all" /\ chunkSettled[i] = <<>>
    /\ chunkAttempt[i] <= translateMaxRetries
    /\ IF chunkAttempt[i] = translateMaxRetries
       THEN ChunkSettles(i, translateChunks[i].content)
       ELSE /\ chunkAttempt' = [chunkAttempt EXCEPT ![i] = @ + 1]
            /\ UNCHANGED <<chunkSettled, completionOrder>>
    /\ UNCHANGED <<translateContent, translateMaxRetries, translateChunks, translateResult,
                   tpc, chunkVars, validateVars, retryVars, joinVars, workflowVars,
                   contextVars, proofreaderVars, mainVars>>

\* the attempts array is empty (maxRetries is 0): translateChunk returns text
ChunkWithoutAttempts(i) ==
    /\ tpc = "all" /\ chunkSettled[i] = <<>>
    /\ chunkAttempt[i] > translateMaxRetries
    /\ ChunkSettles(i, translateChunks[i].content)
    /\ UNCHANGED <<translateContent, translateMaxRetries, translateChunks, translateResult,
                   tpc, chunkVars, validateVars, retryVars, joinVars, workflowVars,
                   contextVars, proofreaderVars, mainVars>>

\* every promise is settled: const result = translatedChunks.join(''); return result
TranslateJoin ==
    /\ tpc = "all"
    /\ \A i \in 1..Len(translateChunks) : chunkSettled[i] # <<>>
    /\ translateResult' = concatAll(promiseAll(chunkSettled))
    /\ tpc' = "done"
    /\ UNCHANGED <<translateContent, translateMaxRetries, translateChunks, chunkAttempt,
                   chunkSettled, completionOrder,
                   chunkVars, validateVars, retryVars, joinVars, workflowVars,
                   contextVars, proofreaderVars, mainVars>>

NextTranslate ==
    \/ TranslateChunkDocument
    \/ \E i \in 1..Len(translateChunks) :
          \/ \E translated \in ChainOutputs(translateChunks[i].content) :
                ChunkAttemptMatches(i, translated)
          \/ ChunkAttemptFails(i)
          \/ ChunkWithoutAttempts(i)
    \/ TranslateJoin

(***************************************************************************)
(* The command line: main and executeWithWorkflow.  workflow.run is the    *)
(* translation workflow above.                                             *)
(***************************************************************************)
MainIdle == mainPc = "idle" /\ outputWrites = <<>> /\ exitStatus = <<>>

\* main has been called; nothing is written, the process has not exited
MainStart == mainPc = "start" /\ outputWrites = <<>> /\ exitStatus = <<>>

\* executeWithWorkflow up to the call of workflow.run: it returns early (help,
\* no input file, no GOOGLE_API_KEY) and main ends normally; or parseArgs or
\* readTextFile throws and the catch of main calls process.exit(1); or the
\* input is read and workflow.run is called
ExecuteBeforeRun(path) ==
    /\ mainPc = "start"
    /\ mainPc' = IF path = "run" THEN "run" ELSE "exited"
    /\ exitStatus' = IF path = "run" THEN exitStatus
                     ELSE IF path = "return" THEN <<0>> ELSE <<1>>
    /\ UNCHANGED <<outputWrites, chunkVars, validateVars, retryVars, joinVars,
                   workflowVars, contextVars, proofreaderVars, translateVars>>

\* await workflow.run(...) settles: on a result executeWithWorkflow goes on
\* to write it; a rejection goes to the catch of main
WorkflowRunSettles_writesAnyway ==
    /\ mainPc = "run" /\ wpc = "done"
    /\ mainPc' = "write"
    /\ UNCHANGED <<outputWrites, exitStatus, chunkVars, validateVars, retryVars, joinVars,
                   workflowVars, contextVars, proofreaderVars, translateVars>>

WorkflowRunSettles ==
    /\ mainPc = "run" /\ wpc = "done"
    /\ IF workflowOutcome.kind = "returned"
       THEN mainPc' = "write" /\ exitStatus' = exitStatus
       ELSE mainPc' = "exited" /\ exitStatus' = <<1>>
    /\ UNCHANGED <<outputWrites, chunkVars, validateVars, retryVars, joinVars,
                   workflowVars, contextVars, proofreaderVars, translateVars>>

\* await writeTextFile(outputPath, result.translatedContent): it resolves,
\* and the final lint follows when hasProofreadErrors is set, or it rejects
\* and the catch of main calls process.exit(1)
WriteTextFile(threw) ==
    /\ mainPc = "write"
    /\ outputWrites' =
           Append(outputWrites,
                  [content |-> IF workflowOutcome.kind = "returned"
                               THEN workflowOutcome.translatedContent ELSE <<>>,
                   threw |-> threw])
    /\ IF threw THEN mainPc' = "exited" /\ exitStatus' = <<1>>
       ELSE IF workflowOutcome.kind = "returned" /\ workflowOutcome.hasProofreadErrors
       THEN mainPc' = "lint" /\ exitStatus' = exitStatus
       ELSE mainPc' = "exited" /\ exitStatus' = <<0>>
    /\ UNCHANGED <<chunkVars, validateVars, retryVars, joinVars,
                   workflowVars, contextVars, proofreaderVars, translateVars>>

\* textlintRunner.lintFile(outputPath) returns or throws, the throw caught:
\* executeWithWorkflow returns and main ends normally
FinalLint ==
    /\ mainPc = "lint"
    /\ mainPc' = "exited"
    /\ exitStatus' = <<0>>
    /\ UNCHANGED <<outputWrites, chunkVars, validateVars, retryVars, joinVars,
                   workflowVars, contextVars, proofreaderVars, translateVars>>

NextMain ==
    \/ \E path \in {"return", "throw", "run"} : ExecuteBeforeRun(path)
    \/ mainPc = "run" /\ NextWorkflow
    \/ WorkflowRunSettles
    \/ \E threw \in BOOLEAN : WriteTextFile(threw)
    \/ FinalLint

(***************************************************************************)
(* Specifications.                                                         *)
(***************************************************************************)
InitChunk ==
    /\ ChunkStart /\ ValidateIdle /\ RetryIdle /\ JoinIdle /\ WorkflowIdle
    /\ ContextIdle /\ ProofreaderIdle /\ TranslateIdle /\ MainIdle
InitValidate ==
    /\ ChunkIdle /\ ValidateStart /\ RetryIdle /\ JoinIdle /\ WorkflowIdle
    /\ ContextIdle /\ ProofreaderIdle /\ TranslateIdle /\ MainIdle
InitRetry ==
    /\ ChunkIdle /\ ValidateIdle /\ RetryStart /\ JoinIdle /\ WorkflowIdle
    /\ ContextIdle /\ ProofreaderIdle /\ TranslateIdle /\ MainIdle
InitJoin ==
    /\ ChunkIdle /\ ValidateIdle /\ RetryIdle /\ JoinStart /\ WorkflowIdle
    /\ ContextIdle /\ ProofreaderIdle /\ TranslateIdle /\ MainIdle
InitWorkflow ==
    /\ ChunkIdle /\ ValidateIdle /\ RetryIdle /\ JoinIdle /\ WorkflowStart
    /\ ContextIdle /\ ProofreaderIdle /\ TranslateIdle /\ MainIdle
InitContext ==
    /\ ChunkIdle /\ ValidateIdle /\ RetryIdle /\ JoinIdle /\ WorkflowIdle
    /\ ContextStart /\ ProofreaderIdle /\ TranslateIdle /\ MainIdle
InitProofreader ==
    /\ ChunkIdle /\ ValidateIdle /\ RetryIdle /\ JoinIdle /\ WorkflowIdle
    /\ ContextIdle /\ ProofreaderStart /\ TranslateIdle /\ MainIdle
InitTranslate ==
    /\ ChunkIdle /\ ValidateIdle /\ RetryIdle /\ JoinIdle /\ WorkflowIdle
    /\ ContextIdle /\ ProofreaderIdle /\ TranslateStart /\ MainIdle
\* main is called with the content of the input file and the retry limit it
\* passes to workflow.run: options: { maxRetries: 3 }
InitMain ==
    /\ ChunkIdle /\ ValidateIdle /\ RetryIdle /\ JoinIdle
    /\ WorkflowStart /\ maxRetries = maxRetriesOf(<<CliMaxRetries>>)
    /\ ContextIdle /\ ProofreaderIdle /\ TranslateIdle /\ MainStart

SpecChunk == InitChunk /\ [][NextChunk]_vars
SpecValidate == InitValidate /\ [][NextValidate]_vars
SpecRetry == InitRetry /\ [][NextRetry]_vars
SpecJoin == InitJoin /\ [][NextJoin]_vars
SpecWorkflow == InitWorkflow /\ [][NextWorkflow]_vars
SpecContext == InitContext /\ [][NextContext]_vars
SpecProofreader == InitProofreader /\ [][NextProofreader]_vars
SpecTranslate == InitTranslate /\ [][NextTranslate]_vars
SpecMain == InitMain /\ [][NextMain]_vars

\* retryUntilSuccess is one sequential async function: whenever it can take
\* its next step (the awaited call has returned or thrown) it takes it
FairSpecRetry == SpecRetry /\ WF_vars(NextRetry)

\* translateMarkdownContent is one sequential async function: every call it
\* awaits returns or throws, and it then takes its next step
FairSpecWorkflow == SpecWorkflow /\ WF_vars(NextWorkflow)

Init ==
    \/ InitChunk \/ InitValidate \/ InitRetry \/ InitJoin \/ InitWorkflow
    \/ InitContext \/ InitProofreader \/ InitTranslate \/ InitMain
Next ==
    \/ NextChunk \/ NextValidate \/ NextRetry \/ NextJoin \/ NextWorkflow
    \/ NextContext \/ NextProofreader \/ NextTranslate \/ NextMain
Spec == Init /\ [][Next]_vars

(***************************************************************************)
(* Properties of the chunk pipeline.                                       *)
(***************************************************************************)

\* C1: joining the contents of the chunks of a document, in order, gives
\* back exactly the document, character for character, leading and trailing
\* newlines included.
C1_RoundTrip == cpc = "joined" => joined = content

\* a document that starts and ends with a newline and splits into chunks
C1_Witness ==
    /\ cpc = "joined"
    /\ Len(chunks) >= 2
    /\ Len(content) > 0 /\ content[1] = NL /\ endsWithNewline(content)

\* the chunks S tile the lines 1..lineCount(D) of the document D
Tiles(S, D) ==
    /\ Len(S) >= 1
    /\ S[1].startLine = 1
    /\ \A i \in 1..Len(S) : S[i].startLine <= S[i].endLine
    /\ \A i \in 1..(Len(S) - 1) : S[i].endLine + 1 = S[i + 1].startLine
    /\ S[Len(S)].endLine = getLineCount(D)

\* C2: the chunks returned by chunkMarkdown (and by the class method
\* SemanticChunker.chunkMarkdown) start at line 1, each starts on the line
\* after the end of the one before it, and the last ends on the last line of
\* the document: no overlap and no gap.
C2_Tiling ==
    /\ cpc \in {"chunked", "joined"} => Tiles(chunks, content)
    /\ classChunks # <<>> => Tiles(classChunks, content)

\* several chunks, one of them of more than one line, from both chunkers
C2_Witness ==
    /\ cpc = "chunked"
    /\ Len(chunks) >= 2
    /\ \E i \in 1..Len(chunks) : chunks[i].endLine > chunks[i].startLine
    /\ classChunks = chunks

(***************************************************************************)
(* Properties of validateLineCount.                                        *)
(***************************************************************************)

\* C3: whenever validateLineCount(original, candidate) is valid, adjustedText
\* has exactly the line count of original.
C3_ValidMeansSameLineCount ==
    (vpc = "validated" /\ validation.isValid) =>
        getLineCount(validation.adjustedText) = getLineCount(originalText)

\* a valid result whose text was adjusted
C3_Witness ==
    /\ vpc = "validated"
    /\ validation.isValid
    /\ validation.adjustedText # translatedText
    /\ getLineCount(translatedText) # getLineCount(originalText)

\* the line counts of a and b differ by at most one, and b as it is, b
\* without its trailing newline, or b with one newline appended has the line
\* count of a
Reconcilable(a, b) ==
    LET d == getLineCount(b) - getLineCount(a)
    IN  /\ d \in {-1, 0, 1}
        /\ \/ d = 0
           \/ d = 1 /\ endsWithNewline(b)
                    /\ getLineCount(sliceOffLast(b)) = getLineCount(a)
           \/ d = -1 /\ getLineCount(b \o <<NL>>) = getLineCount(a)

\* C4: validateLineCount(a, b).isValid is true if and only if the line counts
\* differ by at most one and a single trailing-newline adjustment of b makes
\* them equal; it is false for larger differences and for a difference a
\* trailing newline does not explain.
C4_ValidIffReconcilable ==
    vpc = "validated" =>
        (validation.isValid <=> Reconcilable(originalText, translatedText))

\* a candidate with one line too many that does not end with a newline
C4_Witness ==
    /\ vpc = "validated"
    /\ ~validation.isValid
    /\ getLineCount(translatedText) = getLineCount(originalText) + 1
    /\ ~endsWithNewline(translatedText)

(***************************************************************************)
(* Properties of retryUntilSuccess.                                        *)
(***************************************************************************)
Returned(i) == ~attemptCalls[i].threw

\* the output of the most recent attempt before attempt n that returned
RECURSIVE LastOutputBefore(_, _)
LastOutputBefore(n, none) ==
    IF n <= 1 THEN none
    ELSE IF Returned(n - 1) THEN attemptCalls[n - 1].result
    ELSE LastOutputBefore(n - 1, none)

\* the validate call made for attempt i
ValidateCallOf(i) ==
    CHOOSE c \in {validateCalls[j] : j \in 1..Len(validateCalls)} : c.n = i

\* the failure reason attempt i ended with
FailureReasonOfAttempt(i) ==
    IF attemptCalls[i].threw THEN errorReason(attemptCalls[i].error)
    ELSE IF ValidateCallOf(i).threw THEN errorReason(ValidateCallOf(i).error)
    ELSE ValidateCallOf(i).reason

\* C5: attempt is invoked exactly k times, k the index of the first attempt
\* whose result validates true, and exactly maxAttempts times if none
\* validates (a throwing attempt counts as one); it is never invoked after a
\* result has validated.
C5_AttemptCount ==
    /\ Len(attemptCalls) <= maxAttempts
    /\ \A i \in 1..Len(attemptCalls) :
           /\ attemptCalls[i].n = i
           /\ attemptCalls[i].validated => (i = Len(attemptCalls) /\ rpc = "done")
    /\ rpc = "done" =>
           IF outcome.validated
           THEN Len(attemptCalls) >= 1 /\ attemptCalls[Len(attemptCalls)].validated
           ELSE Len(attemptCalls) = maxAttempts

\* two failed attempts, one of them throwing, and then a validated third
C5_Witness ==
    /\ rpc = "done"
    /\ Len(attemptCalls) = 3
    /\ attemptCalls[1].threw
    /\ Returned(2)
    /\ attemptCalls[3].validated

\* C6: attempt 1 receives no context; attempt n >= 2 receives the failure
\* reason of attempt n-1 and, as previousResult, the output of the most recent
\* earlier attempt that returned, whatever that output is (absent only if
\* every earlier attempt threw).
C6_ContextThreading ==
    \A n \in 1..Len(attemptCalls) :
        IF n = 1 THEN attemptCalls[n].context = NoContext
        ELSE /\ attemptCalls[n].context.present
             /\ attemptCalls[n].context.failureReason = FailureReasonOfAttempt(n - 1)
             /\ attemptCalls[n].context.previousResult = LastOutputBefore(n, UNDEFINED)

\* C7: an exception thrown by attempt is caught, reported once to onError
\* (when supplied) with the attempt's 1-based number, counted as one consumed
\* attempt, and the loop goes on to the next attempt; it does not leave
\* retryUntilSuccess while attempts remain.
C7_ThrowIsCaught ==
    /\ \A i \in 1..Len(attemptCalls) : attemptCalls[i].threw =>
           /\ attemptCalls[i].n = i
           /\ hasOnError =>
                  \E j \in 1..Len(onErrorCalls) :
                      /\ onErrorCalls[j] = [error |-> attemptCalls[i].error, attemptNumber |-> i]
                      /\ \A k \in 1..Len(onErrorCalls) :
                             onErrorCalls[k].attemptNumber = i => k = j
           /\ i < maxAttempts =>
                  \/ Len(attemptCalls) > i
                  \/ rpc = "loop" /\ attemptNumber = i + 1
    /\ ~hasOnError => onErrorCalls = <<>>
    /\ outcome.kind = "threw" =>
           /\ Len(attemptCalls) = maxAttempts
           /\ outcome.value \notin Errors

\* a throwing first attempt reported to onError, then a validated one
C7_Witness ==
    /\ rpc = "done"
    /\ hasOnError
    /\ Len(attemptCalls) = 2
    /\ attemptCalls[1].threw
    /\ Len(onErrorCalls) = 1
    /\ outcome.validated

\* C8: when the attempts are exhausted without a validated result and an
\* exhaustion handler is supplied, the handler is called exactly once, with
\* the last produced result (null if every attempt threw), and what it
\* returns is the final result.
C8_ExhaustedHandlerCalled ==
    (/\ rpc = "done"
     /\ ~outcome.validated
     /\ hasOnMaxAttemptsReached
     /\ Len(attemptCalls) >= 1) =>
        /\ Len(exhaustedCalls) = 1
        /\ exhaustedCalls[1].arg = LastOutputBefore(Len(attemptCalls) + 1, NULL)
        /\ outcome = [kind |-> "returned", value |-> exhaustedCalls[1].returned,
                      validated |-> FALSE]

\* C9: when the attempts are exhausted without a validated result and no
\* exhaustion handler is supplied, the most recently produced result is
\* returned as-is if some attempt produced one; if every attempt threw,
\* retryUntilSuccess fails with an error and validate was never called.
C9_ExhaustedWithoutHandler ==
    (rpc = "done" /\ ~outcome.validated /\ ~hasOnMaxAttemptsReached) =>
        IF \E i \in 1..Len(attemptCalls) : Returned(i)
        THEN outcome = [kind |-> "returned",
                        value |-> LastOutputBefore(Len(attemptCalls) + 1, NULL),
                        validated |-> FALSE]
        ELSE outcome.kind = "threw" /\ validateCalls = <<>>

\* two attempts produce different results, neither validates, no handler
C9_Witness ==
    /\ rpc = "done"
    /\ ~outcome.validated
    /\ ~hasOnMaxAttemptsReached
    /\ Len(attemptCalls) >= 2
    /\ Returned(1) /\ Returned(2)
    /\ attemptCalls[1].result # attemptCalls[2].result

\* C10: for every finite maxAttempts and every behaviour of attempt and
\* validate in which each call returns or throws, retryUntilSuccess
\* eventually returns or throws.
C10_Terminates == <>(rpc = "done")

\* the whole attempt budget is used up before the function ends
C10_Witness ==
    /\ rpc = "done"
    /\ maxAttempts = MaxAttemptsBound
    /\ Len(attemptCalls) = maxAttempts
    /\ ~outcome.validated

(***************************************************************************)
(* Properties of joinChunks.                                               *)
(***************************************************************************)
RECURSIVE sumLineCount(_)
sumLineCount(parts) ==
    IF Len(parts) = 0 THEN 0
    ELSE getLineCount(Head(parts)) + sumLineCount(Tail(parts))

\* C19 as stated: for every list of segment contents, of any length, the
\* line count of joinChunks(segments) equals the sum of the line counts of
\* the segments.  It fails for the empty list: joinChunks returns '', which
\* has one line, and the sum over no segments is zero.
C19_LineCountSum ==
    jpc = "joined" => getLineCount(joinedSegments) = sumLineCount(segments)

\* C19: for every non-empty list of segment contents the line count of
\* joinChunks(segments) equals the sum of the line counts of the segments;
\* for the empty list joinChunks returns the empty string, of one line.
C19_LineCountSumNonEmpty ==
    jpc = "joined" =>
        /\ Len(segments) >= 1 =>
               getLineCount(joinedSegments) = sumLineCount(segments)
        /\ Len(segments) = 0 => getLineCount(joinedSegments) = 1

\* several segments, an empty one and one of several lines among them
C19_Witness ==
    /\ jpc = "joined"
    /\ Len(segments) = MaxSegments
    /\ \E i \in 1..Len(segments) : segments[i] = <<>>
    /\ \E i \in 1..Len(segments) : getLineCount(segments[i]) >= 2
    /\ getLineCount(joinedSegments) > MaxSegments

\* the number of characters of the result that precede segment i
RECURSIVE offsetOf(_, _)
offsetOf(parts, i) ==
    IF i = 1 THEN 0 ELSE offsetOf(parts, i - 1) + Len(parts[i - 1]) + 1

\* C20: joinChunks returns the empty string for zero segments, the single
\* segment unchanged for one segment, and for several segments their
\* contents in order with exactly one newline between each adjacent pair
\* and no separator after the last.
C20_JoinShape ==
    jpc = "joined" =>
        LET n == Len(segments) IN
        /\ n = 0 => joinedSegments = <<>>
        /\ n = 1 => joinedSegments = segments[1]
        /\ n >= 1 =>
               /\ Len(joinedSegments) = offsetOf(segments, n) + Len(segments[n])
               /\ \A i \in 1..n :
                      /\ SubSeq(joinedSegments, offsetOf(segments, i) + 1,
                                offsetOf(segments, i) + Len(segments[i])) = segments[i]
                      /\ i < n =>
                             joinedSegments[offsetOf(segments, i) + Len(segments[i]) + 1] = NL

\* several segments joined, the last one ending in a newline of its own
C20_Witness ==
    /\ jpc = "joined"
    /\ Len(segments) >= 2
    /\ segments[Len(segments)] = <<"a", NL>>
    /\ segments[1] = <<>>
    /\ Len(joinedSegments) >= 4

(***************************************************************************)
(* Properties of the translation workflow.                                 *)
(***************************************************************************)

\* C11: after reassembly the line count of the final document is compared
\* with that of the source, and whenever the two differ the run ends as
\* failed.  The comparison is always made, but the run returns the document
\* all the same: a difference that cannot be reconciled is only logged.
C11_FinalMismatchFatal ==
    (/\ lastValidateCall.stage = "final"
     /\ getLineCount(finalContent) # getLineCount(originalContent))
        => workflowOutcome.kind = "threw"

\* C12: a run that completes although a stage of some chunk ended without a
\* validated result marks its result as not valid.  The result holds the
\* text and the proofreading flag only, and the flag is not raised by a
\* candidate whose line count was judged invalid.
C12_DegradedRunFlagged ==
    (workflowOutcome.kind = "returned" /\ unvalidatedStages # {})
        => workflowOutcome.hasProofreadErrors

StageInProgress ==
    /\ wpc = lastStageCall.stage
    /\ chunkNumber = lastStageCall.chunkNumber
    /\ stageAttemptNumber > 1

EndsUnvalidated(stage) ==
    /\ wpc = stage
    /\ <<chunkNumber, stage>> \notin unvalidatedStages
    /\ <<chunkNumber, stage>> \in unvalidatedStages'
    /\ workflowOutcome'.kind # "threw"

C15_ValidatedAgainstOwnInput ==
    /\ [](/\ lastValidateCall.stage = "translation" =>
                 /\ lastValidateCall.chunkNumber = chunkNumber
                 /\ lastValidateCall.original = workflowChunks[chunkNumber].content
          /\ lastValidateCall.stage = "proofreading" =>
                 lastValidateCall.original = translatedChunk)
    /\ [][ (/\ lastValidateCall' # lastValidateCall
            /\ lastValidateCall'.stage = "proofreading") =>
               /\ wpc = "proofreading"
               /\ lastValidateCall'.chunkNumber = chunkNumber
               /\ lastValidateCall'.original = translatedChunk
         ]_vars
    /\ [][ (wpc = "translation" /\ wpc' = "proofreading") =>
               /\ lastValidateCall'.stage = "translation"
               /\ lastValidateCall'.chunkNumber = chunkNumber
               /\ chunkNumber' = chunkNumber
               /\ translatedChunk' =
                      validateLineCount(workflowChunks[chunkNumber].content,
                                        lastValidateCall'.candidate).adjustedText
         ]_vars

\* the proofreading candidate of the second chunk has been validated, the two
\* chunks and their translations being different texts
C15_Witness ==
    /\ lastValidateCall.stage = "proofreading"
    /\ lastValidateCall.chunkNumber = 2
    /\ workflowChunks[1].content # workflowChunks[2].content
    /\ translatedChunk # workflowChunks[2].content
    /\ translatedChunk # processedChunks[1]
    /\ lastValidateCall.candidate # translatedChunk

\* C16: chunks are processed strictly one at a time in document order: an
\* agent is called for a chunk only when exactly the chunks before it have
\* been finalized; within a chunk the attempts of a stage are consecutive and
\* the proofreading is called only after the translation's retry loop has
\* ended; joinChunks is invoked only after every chunk is finalized, and the
\* final validation only after the join.
C16_StrictOrder ==
    /\ [][ lastStageCall' # lastStageCall =>
               /\ lastStageCall'.chunkNumber = Len(processedChunks) + 1
               /\ lastStageCall'.chunkNumber <= Len(workflowChunks)
               /\ lastStageCall'.stage = wpc
               /\ finalContent = <<>> /\ finalValidation = NoValidation
               /\ IF lastStageCall'.attemptNumber > 1
                  THEN /\ lastStageCall'.chunkNumber = lastStageCall.chunkNumber
                       /\ lastStageCall'.stage = lastStageCall.stage
                       /\ lastStageCall'.attemptNumber = lastStageCall.attemptNumber + 1
                  ELSE IF lastStageCall'.stage = "proofreading"
                  THEN /\ lastStageCall.stage = "translation"
                       /\ lastStageCall.chunkNumber = lastStageCall'.chunkNumber
                  ELSE \/ lastStageCall = NoStageCall /\ lastStageCall'.chunkNumber = 1
                       \/ /\ lastStageCall.stage = "proofreading"
                          /\ lastStageCall'.chunkNumber = lastStageCall.chunkNumber + 1
         ]_vars
    /\ [][ finalContent' # finalContent \/ wpc' = "finalValidation" =>
               /\ wpc = "join"
               /\ Len(processedChunks) = Len(workflowChunks)
               /\ lastStageCall.chunkNumber = Len(workflowChunks)
               /\ lastStageCall.stage = "proofreading"
         ]_vars
    /\ [][ finalValidation' # finalValidation \/ workflowOutcome'.kind = "returned" =>
               /\ wpc = "finalValidation"
               /\ finalContent = joinChunks(processedChunks)
               /\ Len(processedChunks) = Len(workflowChunks)
         ]_vars

\* a run of two chunks has returned, the proofreading of the second chunk
\* having taken a second attempt
C16_Witness ==
    /\ workflowOutcome.kind = "returned"
    /\ Len(workflowChunks) = 2
    /\ lastStageCall.chunkNumber = 2
    /\ lastStageCall.stage = "proofreading"
    /\ lastStageCall.attemptNumber = 2
    /\ finalContent = joinChunks(processedChunks)

\* C17: the list of finalized chunk outputs is append-only and in document
\* order: while chunk k is processed it holds exactly k - 1 entries, an
\* entry is appended only as the final text of the chunk being processed
\* and at the index of that chunk, no entry is changed or removed once
\* appended, and at the join it holds exactly one entry per chunk.
C17_AppendOnly ==
    /\ [][ \/ processedChunks' = processedChunks
           \/ /\ wpc = "proofreading"
              /\ Len(processedChunks') = Len(processedChunks) + 1
              /\ SubSeq(processedChunks', 1, Len(processedChunks)) = processedChunks
              /\ Len(processedChunks') = chunkNumber
              /\ lastValidateCall'.chunkNumber = chunkNumber
              /\ lastValidateCall'.stage = "proofreading"
              /\ processedChunks'[chunkNumber] =
                     validateLineCount(translatedChunk,
                                       lastValidateCall'.candidate).adjustedText
         ]_vars
    /\ [](/\ wpc \in {"translation", "proofreading"} =>
                 Len(processedChunks) = chunkNumber - 1
          /\ wpc \in {"join", "finalValidation"} =>
                 Len(processedChunks) = Len(workflowChunks)
          /\ workflowOutcome.kind = "returned" =>
                 Len(processedChunks) = Len(workflowChunks))

\* two chunks finalized with different final texts, the list about to be joined
C17_Witness ==
    /\ wpc = "join"
    /\ Len(processedChunks) = 2
    /\ processedChunks[1] # processedChunks[2]
    /\ processedChunks[1] # workflowChunks[1].content

\* C18: if every stage call returns its input unchanged for every chunk
\* (the translation the chunk, the proofreading the translated chunk with no
\* lint message), the run completes without a retry, the joined document and
\* the returned document equal the source, the final validation is valid,
\* no stage is left without a validated result and the proofreading flag is
\* not raised.
C18_IdentityRun ==
    allIdentity =>
        /\ workflowOutcome.kind # "threw"
        /\ unvalidatedStages = {}
        /\ lastStageCall.attemptNumber <= 1
        /\ ~hasProofreadErrors
        /\ wpc \in {"finalValidation", "done"} => finalContent = originalContent
        /\ wpc = "done" =>
               /\ workflowOutcome.kind = "returned"
               /\ workflowOutcome.translatedContent = originalContent
               /\ ~workflowOutcome.hasProofreadErrors
               /\ finalValidation = [isValid |-> TRUE, adjustedText |-> originalContent]

\* an identity run over a document of two chunks has returned
C18_Witness ==
    /\ allIdentity
    /\ wpc = "done"
    /\ Len(workflowChunks) = 2
    /\ lastStageCall.stage = "proofreading"
    /\ lastStageCall.chunkNumber = 2
    /\ workflowOutcome.kind = "returned"

(***************************************************************************)
(* Further properties of the chunker.                                      *)
(***************************************************************************)

\* C21: for every document the sum of the line counts of the contents of
\* the chunks of chunkMarkdown equals the line count of the document.
C21_LineCountConserved ==
    cpc \in {"chunked", "joined"} =>
        /\ sumLineCount(chunkContentsOf(chunks)) = getLineCount(content)
        /\ sumLineCount(chunkContentsOf(SemanticChunker_chunkMarkdown(content)))
               = getLineCount(content)

\* a document of MaxLines lines in several chunks, one of them of several lines
C21_Witness ==
    /\ cpc = "chunked"
    /\ getLineCount(content) = MaxLines
    /\ Len(chunks) >= 2
    /\ \E i \in 1..Len(chunks) : getLineCount(chunks[i].content) >= 2

\* the number of '#' characters a line starts with
RECURSIVE leadingHashes(_)
leadingHashes(line) ==
    IF Len(line) = 0 THEN 0
    ELSE IF Head(line) = "#" THEN 1 + leadingHashes(Tail(line))
    ELSE 0

\* a heading of level 1 to 3: one to three leading '#', then whitespace,
\* then text
IsHeading13(line) ==
    LET h == leadingHashes(line)
    IN  /\ h \in 1..3
        /\ Len(line) >= h + 2
        /\ IsWhitespace(line[h + 1])

\* the line is a fence: its trimmed text starts with three backticks
IsFenceLine(line) == startsWithFence(trim(line))

\* line i lies between an opening fence and its closing fence
InsideFence(lines, i) ==
    /\ ~IsFenceLine(lines[i])
    /\ Cardinality({ j \in 1..(i - 1) : IsFenceLine(lines[j]) }) % 2 = 1
    /\ \E j \in (i + 1)..Len(lines) : IsFenceLine(lines[j])

C23_NoBoundaryInsideFence ==
    cpc \in {"chunked", "joined"} =>
        \A k \in 2..Len(chunks) : ~InsideFence(split(content), chunks[k].startLine)

(***************************************************************************)
(* Further properties of validateLineCount.                                *)
(***************************************************************************)

\* the number of lines of a text: its newline characters plus one
linesOf(text) == Cardinality({ i \in 1..Len(text) : text[i] = NL }) + 1

\* C24: the adjustedText of validateLineCount(original, candidate) is the
\* candidate when the line counts are equal or the result is invalid, the
\* candidate without its final newline when it has exactly one line more
\* than the original and ends with a newline, and the candidate followed by
\* one newline when the original has exactly one line more; no other
\* character of the candidate is changed.
C24_AdjustedText ==
    vpc = "validated" =>
        LET o == linesOf(originalText)
            c == linesOf(translatedText)
            n == Len(translatedText)
        IN  /\ (o = c \/ ~validation.isValid) =>
                   validation.adjustedText = translatedText
            /\ (c = o + 1 /\ n > 0 /\ translatedText[n] = NL) =>
                   /\ validation.isValid
                   /\ validation.adjustedText = SubSeq(translatedText, 1, n - 1)
            /\ o = c + 1 =>
                   /\ validation.isValid
                   /\ validation.adjustedText = translatedText \o <<NL>>
            /\ validation.adjustedText \in
                   { translatedText, translatedText \o <<NL>>,
                     SubSeq(translatedText, 1, n - 1) }

\* a candidate of several characters one line short of the original, which
\* gets its newline appended
C24_Witness ==
    /\ vpc = "validated"
    /\ linesOf(originalText) = linesOf(translatedText) + 1
    /\ Len(translatedText) >= 2
    /\ translatedText[1] = NL
    /\ validation.adjustedText = translatedText \o <<NL>>

(***************************************************************************)
(* Properties of the cross-chunk context of translateMarkdownFile.         *)
(***************************************************************************)

\* C25: the previousTranslations handed to translator.run for chunk i are
\* the outputs of chunks 1..i-1 that end up in the document, in document
\* order; the context built from them holds nothing but (the last
\* RecentCount of) these outputs, each under its chunk number and whole
\* when it has at most PreviewLimit characters; and the list is only ever
\* appended to: no entry it holds is changed or dropped.
C25_ContextIsPriorOutputs ==
    /\ [](fpc # "idle" =>
            /\ previousTranslations = fileProcessedChunks
            /\ translatorInput.chunkNumber > 0 =>
                  LET i == translatorInput.chunkNumber
                  IN  /\ Len(fileProcessedChunks) >= i - 1
                      /\ translatorInput.previousTranslations =
                             SubSeq(fileProcessedChunks, 1, i - 1)
                      /\ translatorInput.text = fileChunks[i].content
                      /\ \A k \in 1..Len(contextInfo) :
                            LET n == contextInfo[k].chunkNum
                            IN  /\ n \in 1..(i - 1)
                                /\ Len(fileProcessedChunks[n]) <= PreviewLimit =>
                                       contextInfo[k].preview = fileProcessedChunks[n]
                                /\ k > 1 => contextInfo[k - 1].chunkNum < n)
    /\ [][ /\ Len(previousTranslations') >= Len(previousTranslations)
           /\ SubSeq(previousTranslations', 1, Len(previousTranslations)) =
                  previousTranslations ]_vars

\* the translator is called for the fourth chunk: the three outputs before
\* it, a translated one and an original one that replaced a failed chunk
\* among them, are handed over, and the context shows the last two
C25_Witness ==
    /\ translatorInput.chunkNumber = 4
    /\ Len(translatorInput.previousTranslations) = 3
    /\ translatorInput.previousTranslations[1] # fileChunks[1].content
    /\ translatorInput.previousTranslations[2] = fileChunks[2].content
    /\ Len(contextInfo) = 2
    /\ contextInfo[1].chunkNum = 2
    /\ contextInfo[2].chunkNum = 3

(***************************************************************************)
(* Properties of needsTranslation.                                         *)
(***************************************************************************)

\* line i lies in a fenced span: an odd number of fence lines comes before it
InFencedSpan(lines, i) ==
    Cardinality({ j \in 1..(i - 1) : IsFenceLine(lines[j]) }) % 2 = 1

HasLetter(line) == \E p \in 1..Len(line) : line[p] \in AsciiLetters

\* the text has an ASCII letter on a line that is no fence line and lies in
\* no fenced span
LetterOutsideFences(text) ==
    LET lines == split(text)
    IN  \E i \in 1..Len(lines) :
            /\ ~IsFenceLine(lines[i])
            /\ ~InFencedSpan(lines, i)
            /\ HasLetter(lines[i])

\* C26: the needsTranslation flag of every chunk, of chunkMarkdown and of
\* SemanticChunker.chunkMarkdown, is true exactly when the chunk has an
\* ASCII letter outside its fenced spans, where fence lines (trimmed text
\* starting with three backticks) open and close the spans in turn and
\* neither they nor the lines between them count.
C26_NeedsTranslationIffLetterOutsideFences ==
    cpc \in {"chunked", "joined"} =>
        /\ \A k \in 1..Len(chunks) :
               chunks[k].needsTranslation <=> LetterOutsideFences(chunks[k].content)
        /\ \A k \in 1..Len(SemanticChunker_chunkMarkdown(content)) :
               LET chunk == SemanticChunker_chunkMarkdown(content)[k]
               IN  chunk.needsTranslation <=> LetterOutsideFences(chunk.content)

\* a chunk whose only letter stands between two fence lines: not to be translated
C26_Witness ==
    /\ cpc = "chunked"
    /\ \E k \in 1..Len(chunks) :
          LET lines == split(chunks[k].content)
          IN  /\ Len(lines) = 3
              /\ IsFenceLine(lines[1]) /\ HasLetter(lines[2]) /\ IsFenceLine(lines[3])
              /\ ~chunks[k].needsTranslation

(***************************************************************************)
(* Properties of Proofreader.run.                                          *)
(***************************************************************************)

ProofreadReturned == ppc = "done" /\ proofreadOutcome.kind = "returned"

\* C27: a run of Proofreader.run first lints its input; when that lint
\* reports no message it returns the input with no remaining errors, having
\* called neither the model nor the linter again; otherwise it calls the
\* model once, after the first lint, then lints the corrected text once,
\* and returns that text with remainingErrors present exactly when the
\* second lint reports a message.  (A lint call that throws ends the run.)
C27_LintModelLintOrder ==
    /\ [](/\ Len(lintCalls) <= 2 /\ Len(modelCalls) <= 1
          /\ Len(lintCalls) >= 1 => lintCalls[1].text = proofreadInput.text
          /\ ProofreadReturned =>
                IF Len(lintCalls[1].messages) = 0
                THEN /\ Len(lintCalls) = 1 /\ modelCalls = <<>>
                     /\ proofreadOutcome.fixedText = proofreadInput.text
                     /\ proofreadOutcome.remainingErrors = <<>>
                ELSE /\ Len(lintCalls) = 2 /\ Len(modelCalls) = 1
                     /\ modelCalls[1].content = proofreadInput.text
                     /\ lintCalls[2].text = fixedText
                     /\ proofreadOutcome.fixedText = fixedText
                     /\ (proofreadOutcome.remainingErrors # <<>>) <=>
                            (Len(lintCalls[2].messages) >= 1))
    /\ [][ /\ modelCalls' # modelCalls =>
                /\ Len(lintCalls) = 1 /\ lintCalls' = lintCalls
                /\ Len(lintCalls[1].messages) >= 1
           /\ (lintCalls' # lintCalls /\ Len(lintCalls) = 1) => Len(modelCalls) = 1 ]_vars

\* the model was called, it changed the text, and the second lint still
\* reports a message
C27_Witness ==
    /\ ProofreadReturned
    /\ Len(modelCalls) = 1
    /\ Len(lintCalls) = 2
    /\ proofreadOutcome.fixedText # proofreadInput.text
    /\ proofreadOutcome.remainingErrors # <<>>

\* C28: when the call of the model throws, Proofreader.run goes on: the
\* input text is the corrected text, it is linted again, and the run
\* returns it with the remaining errors of that second lint.  The run throws
\* only when a lint call throws, never because the model did.
C28_ModelFailureFallsBack ==
    /\ modelFailed =>
          /\ ppc \in {"relint", "done"}
          /\ fixedText = proofreadInput.text
          /\ ppc = "done" =>
                /\ Len(lintCalls) = 2
                /\ lintCalls[2].text = proofreadInput.text
                /\ ~lintCalls[2].threw =>
                      /\ proofreadOutcome.kind = "returned"
                      /\ proofreadOutcome.fixedText = proofreadInput.text
                      /\ (proofreadOutcome.remainingErrors # <<>>) <=>
                             (Len(lintCalls[2].messages) >= 1)
    /\ proofreadOutcome.kind = "threw" => lintCalls[Len(lintCalls)].threw

\* the model threw and the run returned the input with the errors that remain
C28_Witness ==
    /\ modelFailed
    /\ ProofreadReturned
    /\ proofreadOutcome.fixedText = proofreadInput.text
    /\ proofreadOutcome.remainingErrors # <<>>

(***************************************************************************)
(* Properties of Translator.translate.                                     *)
(***************************************************************************)

\* C29: the document Translator.translate returns has as many lines as the
\* document it was given.
C29_TranslatePreservesLineCount ==
    tpc = "done" => getLineCount(translateResult) = getLineCount(translateContent)

\* a returned chunk without the mark the model of chain.invoke puts in front
unmarked(text) == IF Len(text) > 0 /\ Head(text) = "j" THEN Tail(text) ELSE text

RECURSIVE concatUnmarked(_)
concatUnmarked(texts) ==
    IF Len(texts) = 0 THEN <<>> ELSE unmarked(Head(texts)) \o concatUnmarked(Tail(texts))

RECURSIVE concatSettled(_)
concatSettled(settled) ==
    IF Len(settled) = 0 THEN <<>> ELSE Head(settled)[1] \o concatSettled(Tail(settled))

\* C30: whatever the order in which the callbacks of the chunks return, the
\* i-th value of Promise.all is what the callback of chunk i returned, and
\* that is the translation of chunk i or chunk i itself; so the document
\* returned is the returned texts in document order.
C30_ResultsInDocumentOrder ==
    /\ tpc \in {"all", "done"} =>
          \A i \in 1..Len(translateChunks) :
              chunkSettled[i] # <<>> =>
                  /\ unmarked(chunkSettled[i][1]) = translateChunks[i].content
                  /\ \E k \in 1..Len(completionOrder) : completionOrder[k] = i
    /\ tpc = "done" =>
          /\ translateResult = concatSettled(chunkSettled)
          /\ concatUnmarked(promiseAll(chunkSettled)) =
                 concatAll(chunkContentsOf(translateChunks))

\* the second chunk returned before the first, the two chunks and their
\* translations differ, and the document starts with the first translation
C30_Witness ==
    /\ tpc = "done"
    /\ completionOrder = <<2, 1>>
    /\ translateChunks[1].content # translateChunks[2].content
    /\ chunkSettled[1][1] # translateChunks[1].content
    /\ chunkSettled[2][1] # translateChunks[2].content
    /\ SubSeq(translateResult, 1, Len(chunkSettled[1][1])) = chunkSettled[1][1]

(***************************************************************************)
(* Properties of the workflow whose stages all ended validated.            *)
(***************************************************************************)

\* C31: as long as every stage that has ended, ended with a validated
\* result, the translated chunk and every finalized chunk text have the line
\* count of the original content of their chunk; the joined document then
\* has the line count of the source, and the final validation is valid and
\* returns the joined document as it is.
C31_ValidatedRunKeepsLineCounts ==
    unvalidatedStages = {} =>
        /\ \A k \in 1..Len(processedChunks) :
               linesOf(processedChunks[k]) = linesOf(workflowChunks[k].content)
        /\ wpc = "proofreading" =>
               linesOf(translatedChunk) = linesOf(workflowChunks[chunkNumber].content)
        /\ wpc \in {"finalValidation", "done"} =>
               linesOf(finalContent) = linesOf(originalContent)
        /\ workflowOutcome.kind = "returned" =>
               /\ finalValidation.isValid
               /\ finalValidation.adjustedText = finalContent
               /\ workflowOutcome.translatedContent = finalContent

\* a run of two chunks returned, every stage validated, though not every
\* call returned its input (an attempt threw, was rejected, or its text was
\* adjusted by a newline)
C31_Witness ==
    /\ workflowOutcome.kind = "returned"
    /\ unvalidatedStages = {}
    /\ Len(workflowChunks) = 2
    /\ ~allIdentity
    /\ lastStageCall.attemptNumber = 2

(***************************************************************************)
(* Further properties of retryUntilSuccess.                                *)
(***************************************************************************)

\* C32: validate is called exactly once for every attempt that returned,
\* after it and with its output, in the order of the attempts, and not at
\* all for an attempt that threw; once validate has returned true the
\* function has returned that output, and attempt, validate, onError and the
\* exhaustion handler are called only while the loop runs, so none of them
\* is called afterwards.
C32_ValidateOncePerReturn ==
    /\ [](/\ \A i \in 1..Len(attemptCalls) :
                 Cardinality({ j \in 1..Len(validateCalls) : validateCalls[j].n = i }) =
                     IF Returned(i) THEN 1 ELSE 0
          /\ \A j \in 1..Len(validateCalls) :
                 /\ validateCalls[j].n \in 1..Len(attemptCalls)
                 /\ validateCalls[j].arg = attemptCalls[validateCalls[j].n].result
                 /\ j > 1 => validateCalls[j - 1].n < validateCalls[j].n
                 /\ validateCalls[j].valid =>
                        /\ j = Len(validateCalls)
                        /\ validateCalls[j].n = Len(attemptCalls)
                        /\ rpc = "done"
                        /\ outcome = [kind |-> "returned", value |-> validateCalls[j].arg,
                                      validated |-> TRUE]
                        /\ exhaustedCalls = <<>>)
    /\ [][ <<attemptCalls, validateCalls, onErrorCalls, exhaustedCalls>>' #
               <<attemptCalls, validateCalls, onErrorCalls, exhaustedCalls>>
           => rpc = "loop" ]_vars

\* an attempt that threw, one that was rejected and one that validated, the
\* two outputs differing: two calls of validate, for the attempts 2 and 3
C32_Witness ==
    /\ rpc = "done"
    /\ Len(attemptCalls) = 3
    /\ attemptCalls[1].threw
    /\ Len(validateCalls) = 2
    /\ validateCalls[1].n = 2 /\ validateCalls[2].n = 3
    /\ validateCalls[1].arg # validateCalls[2].arg
    /\ validateCalls[2].valid

\* C33: a returned result that validate did not accept (the last produced
\* result, or what the exhaustion handler made of it) is returned only when
\* exactly maxAttempts attempts have been made; a result returned after
\* fewer attempts is the output of the last attempt and validate returned
\* true for it.
C33_UnvalidatedOnlyWhenExhausted ==
    (rpc = "done" /\ outcome.kind = "returned") =>
        LET made == Len(attemptCalls)
            accepted == /\ validateCalls # <<>>
                        /\ validateCalls[Len(validateCalls)].valid
                        /\ validateCalls[Len(validateCalls)].n = made
                        /\ validateCalls[Len(validateCalls)].arg = outcome.value
        IN  /\ ~accepted => made = maxAttempts
            /\ made < maxAttempts => accepted
            /\ ~accepted => \A j \in 1..Len(validateCalls) : ~validateCalls[j].valid

\* the output of the third of three attempts, rejected by validate, is
\* returned as the last produced result
C33_Witness ==
    /\ rpc = "done" /\ outcome.kind = "returned" /\ ~outcome.validated
    /\ maxAttempts = 3 /\ Len(attemptCalls) = 3
    /\ Len(validateCalls) >= 1
    /\ validateCalls[Len(validateCalls)].n = 3
    /\ ~validateCalls[Len(validateCalls)].threw
    /\ outcome.value = attemptCalls[3].result

\* C36: an exception thrown by validate is caught like one thrown by attempt:
\* it is reported once to onError (when supplied) with the attempt's number,
\* the attempt is consumed and the loop goes on while attempts remain; the
\* output of that attempt is the last produced result, and the next attempt
\* receives it as previousResult together with the error as failure reason.
C36_ValidateThrowKeepsOutput ==
    \A j \in 1..Len(validateCalls) : validateCalls[j].threw =>
        LET i == validateCalls[j].n
        IN  /\ Returned(i) /\ attemptCalls[i].result = validateCalls[j].arg
            /\ hasOnError =>
                   Cardinality({ k \in 1..Len(onErrorCalls) :
                                     onErrorCalls[k].attemptNumber = i }) = 1
                   /\ \E k \in 1..Len(onErrorCalls) :
                          onErrorCalls[k] = [error |-> validateCalls[j].error,
                                             attemptNumber |-> i]
            /\ i < maxAttempts =>
                   \/ Len(attemptCalls) > i
                   \/ rpc = "loop" /\ attemptNumber = i + 1
            /\ Len(attemptCalls) = i => lastResult = attemptCalls[i].result
            /\ Len(attemptCalls) > i =>
                   /\ attemptCalls[i + 1].context.present
                   /\ attemptCalls[i + 1].context.failureReason =
                          errorReason(validateCalls[j].error)
                   /\ attemptCalls[i + 1].context.previousResult = attemptCalls[i].result

(***************************************************************************)
(* Idempotence of validateLineCount.                                       *)
(***************************************************************************)

\* C37: when validateLineCount(original, candidate) is valid with adjusted
\* text t, validateLineCount(original, t) is valid and returns t unchanged;
\* and validating the same pair again, as the workflow does after its retry
\* loop, gives the verdict and the text of the first validation.
C37_IdempotentOnAccepted ==
    vpc = "validated" =>
        /\ validation.isValid =>
               validateLineCount(originalText, validation.adjustedText) =
                   [isValid |-> TRUE, adjustedText |-> validation.adjustedText]
        /\ validateLineCount(originalText, translatedText) = validation

\* a candidate of two newlines against an original of two lines: the adjusted
\* text is one newline, which still ends with a newline and is left alone by
\* the second validation
C37_Witness ==
    /\ vpc = "validated"
    /\ validation.isValid
    /\ validation.adjustedText # translatedText
    /\ endsWithNewline(validation.adjustedText)
    /\ linesOf(translatedText) = linesOf(originalText) + 1

(***************************************************************************)
(* The line range of a chunk.                                              *)
(***************************************************************************)

\* the chunks S carry the lines of D their line numbers name
CarriesItsLines(S, D) ==
    \A i \in 1..Len(S) :
        /\ S[i].startLine \in 1..getLineCount(D)
        /\ S[i].endLine \in S[i].startLine..getLineCount(D)
        /\ linesOf(S[i].content) = S[i].endLine - S[i].startLine + 1
        /\ split(S[i].content) = SubSeq(split(D), S[i].startLine, S[i].endLine)
        /\ S[i].content = arrayJoin(SubSeq(split(D), S[i].startLine, S[i].endLine))

\* C38: for every chunk s of chunkMarkdown(D), and of the class method, the
\* line count of s.content is s.endLine - s.startLine + 1 and s.content is
\* the lines s.startLine to s.endLine of D joined by newlines.
C38_ContentIsItsLineRange ==
    /\ cpc \in {"chunked", "joined"} => CarriesItsLines(chunks, content)
    /\ classChunks # <<>> => CarriesItsLines(classChunks, content)

\* a chunk that starts after line 1 and ends with a blank line
C38_Witness ==
    /\ cpc = "chunked"
    /\ classChunks # <<>>
    /\ \E i \in 1..Len(chunks) :
           /\ chunks[i].startLine > 1
           /\ chunks[i].endLine > chunks[i].startLine
           /\ endsWithNewline(chunks[i].content)

(***************************************************************************)
(* The number of stage calls of a workflow run, and its termination.       *)
(***************************************************************************)

\* the place of a stage call in the run when every stage of every chunk took
\* all its attempts: the calls of chunk k are numbered from 2 * (k - 1) *
\* maxRetries + 1, the translator's before the proofreader's
callRank(call) ==
    IF call.stage = "none" THEN 0
    ELSE (2 * (call.chunkNumber - 1) + (IF call.stage = "translation" THEN 0 ELSE 1))
             * maxRetries + call.attemptNumber

\* a step taken while a stage runs is a stage call: its first attempt on a
\* chunk and stage not called yet, or the next attempt of the same stage on
\* the same chunk
StageCallAdvances ==
    wpc \in {"translation", "proofreading"} =>
        /\ lastStageCall' # lastStageCall
        /\ callRank(lastStageCall') > callRank(lastStageCall)
        /\ \/ /\ lastStageCall'.attemptNumber = 1
              /\ <<lastStageCall'.chunkNumber, lastStageCall'.stage>> #
                     <<lastStageCall.chunkNumber, lastStageCall.stage>>
           \/ /\ lastStageCall'.attemptNumber = lastStageCall.attemptNumber + 1
              /\ lastStageCall'.chunkNumber = lastStageCall.chunkNumber
              /\ lastStageCall'.stage = lastStageCall.stage

\* C34: the retry limit is 3 when options.maxRetries is absent or 0 and the
\* given number otherwise; the attempts of a stage on a chunk are numbered
\* 1, 2, ... up to the limit at most, a stage call never goes back to an
\* earlier chunk, stage or attempt number (its rank strictly increases and
\* stays within 2 * n * m), so that a run makes at most m translator calls
\* and m proofreader calls for each chunk and 2 * n * m stage calls in all;
\* and every run whose calls return or throw ends, returning or throwing.
C34_BoundedCallsAndTermination ==
    /\ [](wpc # "idle" =>
              /\ maxRetries \in {DefaultMaxRetries} \cup 1..MaxRetriesOption
              /\ lastStageCall.attemptNumber <= maxRetries
              /\ lastStageCall.chunkNumber <= Len(workflowChunks)
              /\ callRank(lastStageCall) <= 2 * Len(workflowChunks) * maxRetries
              /\ wpc = "done" => workflowOutcome.kind \in {"returned", "threw"})
    /\ [][StageCallAdvances]_vars
    /\ [][ lastStageCall' # lastStageCall => wpc \in {"translation", "proofreading"} ]_vars
    /\ <>(wpc = "done")

\* a run of two chunks with the default limit that used all of its
\* 2 * 2 * 3 stage calls and returned
C34_Witness ==
    /\ wpc = "done" /\ workflowOutcome.kind = "returned"
    /\ maxRetries = DefaultMaxRetries
    /\ Len(workflowChunks) = 2
    /\ callRank(lastStageCall) = 2 * 2 * DefaultMaxRetries
    /\ unvalidatedStages = { <<1, "translation">>, <<1, "proofreading">>,
                             <<2, "translation">>, <<2, "proofreading">> }

(***************************************************************************)
(* The chunk flags and the workflow.                                       *)
(***************************************************************************)

\* a stage is being called for the chunk the loop is at, with the text the
\* stage works on, and the call can return as well as throw
StageCallable ==
    /\ wpc = "translation" =>
           /\ ENABLED (\E result \in TranslatorOutputs(workflowChunks[chunkNumber].content) :
                           TranslatorReturns(result))
           /\ ENABLED (\E error \in StageErrors : TranslatorThrows(error))
    /\ wpc = "proofreading" =>
           /\ ENABLED (\E result \in ProofreaderOutputs(translatedChunk) :
                           ProofreaderReturns(result))
           /\ ENABLED (\E error \in StageErrors : ProofreaderThrows(error))
           /\ lastStageCall.chunkNumber = chunkNumber

\* a step of the loop calls the stage the loop is at with the content of the
\* chunk (the translated chunk for the proofreading); a chunk is finalized by
\* a step of its proofreading only
StageCalledOnContent ==
    /\ wpc = "translation" =>
           /\ lastStageCall'.stage = "translation"
           /\ lastStageCall'.chunkNumber = chunkNumber
           /\ lastStageCall'.text = workflowChunks[chunkNumber].content
           /\ lastStageCall'.attemptNumber = stageAttemptNumber
    /\ wpc = "proofreading" =>
           /\ lastStageCall'.stage = "proofreading"
           /\ lastStageCall'.chunkNumber = chunkNumber
           /\ lastStageCall'.text = translatedChunk
           /\ lastStageCall'.attemptNumber = stageAttemptNumber
    /\ processedChunks' # processedChunks =>
           /\ wpc = "proofreading"
           /\ lastStageCall.chunkNumber = chunkNumber
    /\ wpc' = "proofreading" /\ wpc # "proofreading" => wpc = "translation"

WritesAfterReturn ==
    outputWrites' # outputWrites =>
        /\ mainPc = "write"
        /\ wpc = "done" /\ workflowOutcome.kind = "returned"
        /\ outputWrites = <<>>
        /\ outputWrites'[1].content = workflowOutcome.translatedContent
        /\ UNCHANGED workflowVars

\* C39: writeTextFile is called at most once in a run of main, and only
\* after workflow.run has returned, with the text it returned; when the
\* workflow throws nothing is written to the output file, whatever chunks
\* were finished before, and the process ends with status 1.
C39_OutputWrittenOnlyAfterReturn ==
    /\ [](/\ Len(outputWrites) <= 1
          /\ outputWrites # <<>> =>
                 /\ wpc = "done" /\ workflowOutcome.kind = "returned"
                 /\ outputWrites[1].content = workflowOutcome.translatedContent
                 /\ mainPc \in {"lint", "exited"}
          /\ workflowOutcome.kind = "threw" =>
                 /\ outputWrites = <<>>
                 /\ mainPc \in {"run", "exited"}
                 /\ mainPc = "run" => ENABLED WorkflowRunSettles
                 /\ mainPc = "exited" => exitStatus = <<1>>
          /\ (mainPc = "exited") <=> (exitStatus # <<>>)
          /\ exitStatus = <<0>> /\ wpc # "start" =>
                 /\ workflowOutcome.kind = "returned"
                 /\ Len(outputWrites) = 1 /\ ~outputWrites[1].threw)
    /\ [][WritesAfterReturn]_vars

\* the workflow threw at the second chunk, the first being finished: the
\* process has ended with status 1 and nothing was written
C39_Witness ==
    /\ mainPc = "exited" /\ exitStatus = <<1>>
    /\ workflowOutcome.kind = "threw"
    /\ Len(processedChunks) = 1
    /\ outputWrites = <<>>

====
